---- MODULE Spec2Model ----
(***************************************************************************)
(* Connection management of the MCP client manager                         *)
(* (apps/desktop/src-tauri/src/infra/mcp_client.rs, sse_transport.rs).     *)
(*                                                                         *)
(* The registry `connections` and the side table `tools_cache` are the     *)
(* two HashMaps of McpClientManager.  Request tasks (connect, disconnect,  *)
(* list_tools, call_tool, ...), one heartbeat task per registered session  *)
(* and one spawned callback task per SSE worker that reported a            *)
(* disconnect run interleaved.  The tokio RwLock on `connections` is not a *)
(* variable: a task holds it exactly while it sits at one of the program   *)
(* points listed in ReadHolders / WriteHolders.                            *)
(***************************************************************************)
EXTENDS Integers, Sequences, FiniteSets, Bags, TLC

\* ---------------------------------------------------------------- bounds
NumIds == 2
NumCallers == 2
MaxSessions == 2
MaxCalls == 3

Ids == 1..NumIds
Callers == 1..NumCallers
Sessions == 1..MaxSessions

\* ------------------------------------------------------- program constants
MAX_FAILURES == 1
CALL_TIMEOUT_SECS == 30

\* The server_type strings a caller may pass to connect.
ServerTypes == {"streamable_http", "sse", "stdio", "streaming_http", "SSE"}

\* What the tools/list reply of a server can be: sequences of rmcp tools.
ServerTool(n, schema) == [name |-> n, input_schema |-> schema]
ServerReplies ==
    { <<ServerTool("echo", "{}")>>, <<ServerTool("add", "{\"type\":\"object\"}")>> }

\* Error texts of a failed request, as far as run_heartbeat tells them apart.
RpcErrors == {"request failed", "Transport closed", "Connection reset"}

\* Reasons a worker passes to notify_disconnect.
HandshakeReasons == {"sse_stream_closed_before_endpoint"}
StreamReasons == {"sse_stream_closed"}

VARIABLES
    connections,   \* HashMap server_id -> session (the McpConnection registered)
    tools_cache,   \* HashMap server_id -> Vec<McpToolInfo>
    events,        \* bag of the payloads published as "mcp:connection_lost"
    task,          \* request tasks: program point, arguments, result
    sid,           \* session -> server_id it was built for (0: not built yet)
    skind,         \* session -> "http" | "sse"
    worker,        \* session -> state of its transport worker
    notified,      \* session -> SseWorker.disconnect_notified
    hbCancel,      \* session -> heartbeat_cancel token is cancelled
    hb,            \* session -> heartbeat task
    td,            \* <<session, "hb"|"cb">> -> handle_transport_disconnect run
    calls,         \* number of requests made so far (bounded by MaxCalls)
    sse,           \* the run of one SseWorker, step by step (see SseWorker::run below)
    config_repo,   \* McpClientManager.config_repo and what its get("heartbeat_interval") gives
    ticker,        \* session -> the heartbeat's interval as run_heartbeat set it up
    http,          \* the embedded HTTP receiver: HttpServerManager, ServerState, responses
    cmd,           \* the command handlers under way, the call history they wrote
    locks          \* who holds and who waits for the registry lock and the cache lock

vars == <<connections, tools_cache, events, task, sid, skind, worker,
          notified, hbCancel, hb, td, calls, sse, config_repo, ticker, http, cmd, locks>>

Owners == Sessions \X {"hb", "cb"}

\* ------------------------------------------------------------ HashMap ops
MapInsert(m, k, v) == [j \in DOMAIN m \cup {k} |-> IF j = k THEN v ELSE m[j]]
MapRemove(m, k) == [j \in DOMAIN m \ {k} |-> m[j]]
EmptyMap == [j \in {} |-> 0]

\* ------------------------------------------------------------------ locks
\* Program points at which a task holds connections.write() / .read().
WriteHolders == {t \in Callers : task[t].pc \in {"d_cancel", "a_drain"}}
ReadHolders == {t \in Callers : task[t].pc \in {"l_call", "k_call"}}
HbReadHolders == {s \in Sessions : hb[s].pc = "call"}
CanRead == WriteHolders = {}
CanWrite == WriteHolders = {} /\ ReadHolders = {} /\ HbReadHolders = {}

\* ------------------------------------------------------------------ tasks
Idle == [pc |-> "idle", op |-> "-", id |-> 0, sess |-> 0, ret |-> [kind |-> "-"]]
NoHb == [pc |-> "none", fails |-> 0, conn |-> 0]
NoTd == [pc |-> "none", reason |-> "-", conn |-> 0]

\* A caller is free before its first request and once its last request has
\* returned (the result stays readable until its next request starts).  A
\* request starts on the first free caller.
Free(t) == task[t].pc \in {"idle", "returned"}
CanStart(t) ==
    /\ Free(t)
    /\ calls < MaxCalls
    /\ \A u \in Callers : u < t => ~Free(u)

Returned(t, r) == task' = [task EXCEPT ![t].pc = "returned", ![t].ret = r]

\* No SseWorker is followed step by step.
NoWorker == [pc |-> "none"]
\* config_repo: Arc::new(RwLock::new(None)); no heartbeat has set its ticker up.
NoRepo == [repo |-> "None", get |-> "-", value |-> ""]
NoTickers == [s \in Sessions |-> [state |-> "none"]]
\* HttpServerManager::new: no callback set, no server started.
NoServer == [state |-> "stopped", registered |-> FALSE, callback |-> FALSE, log |-> <<>>]
\* No command handler has been called, the call history is empty.
NoCmd == [pc |-> "none", kind |-> "-", id |-> 0, result |-> "-", success |-> FALSE, refresh |-> "-"]
NoCommands == [run |-> [t \in Callers |-> NoCmd], history |-> <<>>]
\* Nobody holds or waits for a lock.
NoLocks == [pc |-> "none"]

InitManager ==
    /\ connections = EmptyMap
    /\ tools_cache = EmptyMap
    /\ events = EmptyBag
    /\ task = [t \in Callers |-> Idle]
    /\ sid = [s \in Sessions |-> 0]
    /\ skind = [s \in Sessions |-> "-"]
    /\ worker = [s \in Sessions |-> "none"]
    /\ notified = [s \in Sessions |-> FALSE]
    /\ hbCancel = [s \in Sessions |-> FALSE]
    /\ hb = [s \in Sessions |-> NoHb]
    /\ td = [o \in Owners |-> NoTd]
    /\ calls = 0

Init ==
    /\ InitManager
    /\ sse = NoWorker
    /\ config_repo = NoRepo
    /\ ticker = NoTickers
    /\ http = NoServer
    /\ cmd = NoCommands
    /\ locks = NoLocks

\* ------------------------------------------------------ SseWorker notify
\* notify_disconnect: the latch (disconnect_notified.swap(true)), then the
\* callback built in connect, which spawns a task that runs
\* handle_transport_disconnect(server_id, reason).  NotifyTd gives the
\* teardown runs after worker s has called notify_disconnect(reason).
NotifyLatch(s) == [notified EXCEPT ![s] = TRUE]
NotifyTd(runs, s, reason) ==
    IF notified[s]
    THEN runs
    ELSE [runs EXCEPT ![<<s, "cb">>] = [pc |-> "remove", reason |-> reason, conn |-> 0]]

\* Variant: the tag is lowercased before the match, as McpServerType::from does.
SelectTransportLowercase(server_type) ==
    CASE server_type = "streamable_http" -> "http"
      [] server_type \in {"sse", "SSE"} -> "sse"
      [] OTHER -> "unsupported"

\* ---------------------------------------------------------------- connect
SelectTransport(server_type) ==
    CASE server_type = "streamable_http" -> "http"
      [] server_type = "sse" -> "sse"
      [] OTHER -> "unsupported"

FreeSessions == {s \in Sessions : sid[s] = 0}
NewSession == CHOOSE s \in FreeSessions : \A x \in FreeSessions : s <= x

\* Variant: connect without the contains_key check.
AlreadyConnectedNever(i) == FALSE

\* The contains_key check of connect, under the read lock.
AlreadyConnected(i) == i \in DOMAIN connections

\* connect up to the transport dispatch: the contains_key check, then the
\* match on server_type.  A transport that is built takes a fresh session.
ConnectCheck(t, i, server_type) ==
    /\ CanStart(t)
    /\ CanRead
    /\ LET call == [Idle EXCEPT !.op = "connect", !.id = i]
           kind == SelectTransport(server_type)
       IN IF AlreadyConnected(i)
          THEN /\ task' = [task EXCEPT ![t] = [call EXCEPT !.pc = "returned",
                              !.ret = [kind |-> "err", err |-> "Already connected"]]]
               /\ UNCHANGED <<sid, skind, worker>>
          ELSE IF kind = "unsupported"
          THEN /\ task' = [task EXCEPT ![t] = [call EXCEPT !.pc = "returned",
                              !.ret = [kind |-> "err", err |-> "Unsupported server type: " \o server_type,
                                       tag |-> server_type]]]
               /\ UNCHANGED <<sid, skind, worker>>
          ELSE /\ FreeSessions # {}
               /\ task' = [task EXCEPT ![t] = [call EXCEPT !.pc = "c_serve",
                              !.sess = NewSession, !.ret = [kind |-> "-", tag |-> server_type]]]
               /\ sid' = [sid EXCEPT ![NewSession] = i]
               /\ skind' = [skind EXCEPT ![NewSession] = kind]
               /\ worker' = [worker EXCEPT ![NewSession] = "serving"]
    /\ UNCHANGED <<connections, tools_cache, events, notified, hbCancel, hb, td>>
    /\ calls' = calls + 1
    /\ UNCHANGED <<sse, config_repo, ticker, http, cmd, locks>>

\* client_info.serve(..).await succeeds: the worker is past its handshake.
ConnectServeOk(t) ==
    /\ task[t].pc = "c_serve"
    /\ worker[task[t].sess] = "serving"
    /\ worker' = [worker EXCEPT ![task[t].sess] = "running"]
    /\ task' = [task EXCEPT ![t].pc = "c_insert"]
    /\ UNCHANGED <<connections, tools_cache, events, sid, skind, notified, hbCancel, hb, td, calls>>
    /\ UNCHANGED <<sse, config_repo, ticker, http, cmd, locks>>

\* serve fails without the worker reporting anything (the GET could not be
\* sent, the initialize request was refused, the streaming transport failed).
ConnectServeErr(t) ==
    /\ task[t].pc = "c_serve"
    /\ worker[task[t].sess] = "serving"
    /\ worker' = [worker EXCEPT ![task[t].sess] = "closed"]
    /\ Returned(t, [kind |-> "err", err |-> "Failed to initialize MCP connection"])
    /\ UNCHANGED <<connections, tools_cache, events, sid, skind, notified, hbCancel, hb, td, calls>>
    /\ UNCHANGED <<sse, config_repo, ticker, http, cmd, locks>>

\* serve fails because the SSE worker ended in its handshake phase.
ConnectServeWorkerEnd(t, reason) ==
    /\ task[t].pc = "c_serve"
    /\ worker[task[t].sess] = "serving"
    /\ skind[task[t].sess] = "sse"
    /\ worker' = [worker EXCEPT ![task[t].sess] = "closed"]
    /\ notified' = NotifyLatch(task[t].sess)
    /\ td' = NotifyTd(td, task[t].sess, reason)
    /\ Returned(t, [kind |-> "err", err |-> "Failed to initialize MCP connection"])
    /\ UNCHANGED <<connections, tools_cache, events, sid, skind, hbCancel, hb, calls>>
    /\ UNCHANGED <<sse, config_repo, ticker, http, cmd, locks>>

\* The insert under the write lock (a present entry is replaced and its
\* RunningService dropped), then the heartbeat task is spawned.
ConnectInsert(t) ==
    /\ task[t].pc = "c_insert"
    /\ CanWrite
    /\ LET i == task[t].id
           s == task[t].sess
       IN /\ connections' = MapInsert(connections, i, s)
          /\ worker' = IF i \in DOMAIN connections /\ worker[connections[i]] = "running"
                       THEN [worker EXCEPT ![connections[i]] = "closed"]
                       ELSE worker
          /\ hb' = [hb EXCEPT ![s] = [pc |-> "wait", fails |-> 0, conn |-> 0]]
    /\ Returned(t, [kind |-> "ok"])
    /\ UNCHANGED <<tools_cache, events, sid, skind, notified, hbCancel, td, calls>>
    /\ UNCHANGED <<sse, config_repo, ticker, http, cmd, locks>>

\* ---------------------------------------------- handle_transport_disconnect
\* Variant: the error text is the bare reason.
EventBareError(server_id, reason) ==
    [server_id |-> server_id, status |-> "disconnected",
     error |-> reason, reason |-> reason]

Event(server_id, reason) ==
    [server_id |-> server_id, status |-> "disconnected",
     error |-> "Transport closed: " \o reason, reason |-> reason]

\* The publish at the end of handle_transport_disconnect.
Publish(bag, i, reason) == bag (+) SetToBag({Event(i, reason)})
Finished(o) == [pc |-> "done", reason |-> "-", conn |-> 0]

\* connections.remove(server_id) under the write lock.  A removed connection
\* has its heartbeat token cancelled and the run goes on to await
\* conn.client.cancel(); with no entry the run goes straight to the publish.
\* A heartbeat that ran the teardown leaves its loop.
HtdRemove(o) ==
    /\ td[o].pc = "remove"
    /\ CanWrite
    /\ LET i == sid[o[1]]
       IN IF i \in DOMAIN connections
          THEN /\ connections' = MapRemove(connections, i)
               /\ hbCancel' = [hbCancel EXCEPT ![connections[i]] = TRUE]
               /\ td' = [td EXCEPT ![o].pc = "cancel", ![o].conn = connections[i]]
               /\ UNCHANGED <<events, hb>>
          ELSE /\ events' = Publish(events, i, td[o].reason)
               /\ td' = [td EXCEPT ![o] = Finished(o)]
               /\ hb' = IF o[2] = "hb" THEN [hb EXCEPT ![o[1]].pc = "done"] ELSE hb
               /\ UNCHANGED <<connections, hbCancel>>
    /\ UNCHANGED <<tools_cache, task, sid, skind, worker, notified, calls>>
    /\ UNCHANGED <<sse, config_repo, ticker, http, cmd, locks>>

\* Variant: the teardown clears the whole tools cache.
HtdFinishClearsCache(o) ==
    /\ td[o].pc = "cancel"
    /\ worker' = [worker EXCEPT ![td[o].conn] = "closed"]
    /\ tools_cache' = EmptyMap
    /\ events' = Publish(events, sid[o[1]], td[o].reason)
    /\ td' = [td EXCEPT ![o] = Finished(o)]
    /\ hb' = IF o[2] = "hb" THEN [hb EXCEPT ![o[1]].pc = "done"] ELSE hb
    /\ UNCHANGED <<connections, task, sid, skind, notified, hbCancel, calls>>
    /\ UNCHANGED <<sse, config_repo, ticker, http, cmd, locks>>

\* conn.client.cancel().await returns, the cache entry is removed and the
\* event is published.
HtdFinish(o) ==
    /\ td[o].pc = "cancel"
    /\ worker' = [worker EXCEPT ![td[o].conn] = "closed"]
    /\ tools_cache' = MapRemove(tools_cache, sid[o[1]])
    /\ events' = Publish(events, sid[o[1]], td[o].reason)
    /\ td' = [td EXCEPT ![o] = Finished(o)]
    /\ hb' = IF o[2] = "hb" THEN [hb EXCEPT ![o[1]].pc = "done"] ELSE hb
    /\ UNCHANGED <<connections, task, sid, skind, notified, hbCancel, calls>>
    /\ UNCHANGED <<sse, config_repo, ticker, http, cmd, locks>>

\* -------------------------------------------------------------- disconnect
EventsFor(i) ==
    LET S == {e \in BagToSet(events) : e.server_id = i}
    IN BagCardinality([e \in S |-> events[e]])

\* A disconnect call that directly follows a disconnect of the same id by the
\* same caller which found a session is the second call "in a row"; `row` and
\* `base` (the events published for the id when the first call began) are
\* kept in the result for the statements about two calls in a row.
InRow(t, i) ==
    /\ task[t].pc = "returned"
    /\ task[t].op = "disconnect"
    /\ task[t].id = i
    /\ task[t].ret.row = 1
    /\ task[t].ret.found
DisconnectStart(t, i) ==
    \/ CanStart(t)
    \/ calls < MaxCalls /\ InRow(t, i)
DisconnectRow(t, i) == IF InRow(t, i) THEN 2 ELSE 1
DisconnectBase(t, i) == IF InRow(t, i) THEN task[t].ret.base ELSE EventsFor(i)

\* disconnect from connections.write() to the await of conn.client.cancel():
\* the entry is removed and its heartbeat token cancelled.  When there is no
\* entry the call runs on to the cache removal and returns.
DisconnectRemove(t, i) ==
    /\ DisconnectStart(t, i)
    /\ CanWrite
    /\ LET call == [Idle EXCEPT !.op = "disconnect", !.id = i]
           r == [kind |-> "-", found |-> i \in DOMAIN connections,
                 row |-> DisconnectRow(t, i), base |-> DisconnectBase(t, i)]
       IN IF i \in DOMAIN connections
          THEN /\ connections' = MapRemove(connections, i)
               /\ hbCancel' = [hbCancel EXCEPT ![connections[i]] = TRUE]
               /\ task' = [task EXCEPT ![t] = [call EXCEPT !.pc = "d_cancel",
                              !.sess = connections[i], !.ret = r]]
               /\ UNCHANGED tools_cache
          ELSE /\ tools_cache' = MapRemove(tools_cache, i)
               /\ task' = [task EXCEPT ![t] = [call EXCEPT !.pc = "returned",
                              !.ret = [r EXCEPT !.kind = "ok"]]]
               /\ UNCHANGED <<connections, hbCancel>>
    /\ UNCHANGED <<events, sid, skind, worker, notified, hb, td>>
    /\ calls' = calls + 1
    /\ UNCHANGED <<sse, config_repo, ticker, http, cmd, locks>>

\* Variant: disconnect publishes the event of handle_transport_disconnect.
DisconnectFinishPublishes(t) ==
    /\ task[t].pc = "d_cancel"
    /\ worker' = [worker EXCEPT ![task[t].sess] = "closed"]
    /\ tools_cache' = MapRemove(tools_cache, task[t].id)
    /\ events' = Publish(events, task[t].id, "disconnect")
    /\ Returned(t, [task[t].ret EXCEPT !.kind = "ok"])
    /\ UNCHANGED <<connections, sid, skind, notified, hbCancel, hb, td, calls>>
    /\ UNCHANGED <<sse, config_repo, ticker, http, cmd, locks>>

\* Variant: disconnect without the removal of the cache entry.
DisconnectFinishKeepsCache(t) ==
    /\ task[t].pc = "d_cancel"
    /\ worker' = [worker EXCEPT ![task[t].sess] = "closed"]
    /\ Returned(t, [task[t].ret EXCEPT !.kind = "ok"])
    /\ UNCHANGED <<connections, tools_cache, events, sid, skind, notified, hbCancel,
                   hb, td, calls>>
    /\ UNCHANGED <<sse, config_repo, ticker, http, cmd, locks>>

\* conn.client.cancel().await returns (the write lock was held across it),
\* the cache entry is removed and disconnect returns.
DisconnectFinish(t) ==
    /\ task[t].pc = "d_cancel"
    /\ worker' = [worker EXCEPT ![task[t].sess] = "closed"]
    /\ tools_cache' = MapRemove(tools_cache, task[t].id)
    /\ Returned(t, [task[t].ret EXCEPT !.kind = "ok"])
    /\ UNCHANGED <<connections, events, sid, skind, notified, hbCancel, hb, td, calls>>
    /\ UNCHANGED <<sse, config_repo, ticker, http, cmd, locks>>

\* ------------------------------------------------------------ is_connected
IsConnected(t, i) ==
    /\ CanStart(t)
    /\ CanRead
    /\ task' = [task EXCEPT ![t] = [Idle EXCEPT !.op = "is_connected", !.id = i,
                   !.pc = "returned", !.ret = [kind |-> "ok", value |-> i \in DOMAIN connections]]]
    /\ UNCHANGED <<connections, tools_cache, events, sid, skind, worker,
                   notified, hbCancel, hb, td>>
    /\ calls' = calls + 1
    /\ UNCHANGED <<sse, config_repo, ticker, http, cmd, locks>>

\* ------------------------------------------------------------- list_tools
\* The conversion of an rmcp tool: an empty schema ("{}") becomes None.
ConvertTool(tool) ==
    [name |-> tool.name,
     input_schema |-> IF tool.input_schema = "{}" THEN <<>> ELSE <<tool.input_schema>>]
ConvertTools(reply) == [k \in 1..Len(reply) |-> ConvertTool(reply[k])]

\* Variant: the fetched tools are appended to the entry already cached.
CacheInsertMerge(cache, i, tools) ==
    MapInsert(cache, i, IF i \in DOMAIN cache THEN cache[i] \o tools ELSE tools)

\* tools_cache.insert(server_id, tools.clone())
CacheInsert(cache, i, tools) == MapInsert(cache, i, tools)

\* Variant: list_tools answers from the cache when the id is not registered.
ListGetFromCache(t, i) ==
    /\ CanStart(t)
    /\ CanRead
    /\ LET call == [Idle EXCEPT !.op = "list_tools", !.id = i]
       IN IF i \in DOMAIN connections
          THEN task' = [task EXCEPT ![t] = [call EXCEPT !.pc = "l_call", !.sess = connections[i]]]
          ELSE task' = [task EXCEPT ![t] = [call EXCEPT !.pc = "returned",
                           !.ret = [kind |-> "ok", tools |-> <<>>]]]
    /\ UNCHANGED <<connections, tools_cache, events, sid, skind, worker,
                   notified, hbCancel, hb, td>>
    /\ calls' = calls + 1
    /\ UNCHANGED <<sse, config_repo, ticker, http, cmd, locks>>

\* list_tools up to the tools/list request: the lookup under the read lock,
\* which stays held while the request is awaited.
ListGet(t, i) ==
    /\ CanStart(t)
    /\ CanRead
    /\ LET call == [Idle EXCEPT !.op = "list_tools", !.id = i]
       IN IF i \in DOMAIN connections
          THEN task' = [task EXCEPT ![t] = [call EXCEPT !.pc = "l_call", !.sess = connections[i]]]
          ELSE task' = [task EXCEPT ![t] = [call EXCEPT !.pc = "returned",
                           !.ret = [kind |-> "err", err |-> "Not connected to server"]]]
    /\ UNCHANGED <<connections, tools_cache, events, sid, skind, worker,
                   notified, hbCancel, hb, td>>
    /\ calls' = calls + 1
    /\ UNCHANGED <<sse, config_repo, ticker, http, cmd, locks>>

\* The server answers: the tools are converted, cached and returned.
ListReplyOk(t, reply) ==
    /\ task[t].pc = "l_call"
    /\ worker[task[t].sess] = "running"
    /\ tools_cache' = CacheInsert(tools_cache, task[t].id, ConvertTools(reply))
    /\ Returned(t, [kind |-> "ok", tools |-> ConvertTools(reply), raw_response |-> reply,
                    replaced |-> task[t].id \in DOMAIN tools_cache])
    /\ UNCHANGED <<connections, events, sid, skind, worker, notified, hbCancel, hb, td, calls>>
    /\ UNCHANGED <<sse, config_repo, ticker, http, cmd, locks>>

\* The request fails.
ListReplyErr(t) ==
    /\ task[t].pc = "l_call"
    /\ Returned(t, [kind |-> "err", err |-> "Failed to list tools"])
    /\ UNCHANGED <<connections, tools_cache, events, sid, skind, worker,
                   notified, hbCancel, hb, td, calls>>
    /\ UNCHANGED <<sse, config_repo, ticker, http, cmd, locks>>

\* The POST of the request fails in the SSE worker, which notifies the
\* disconnect and ends; the request fails.
ListPostFail(t) ==
    /\ task[t].pc = "l_call"
    /\ skind[task[t].sess] = "sse"
    /\ worker[task[t].sess] = "running"
    /\ worker' = [worker EXCEPT ![task[t].sess] = "closed"]
    /\ notified' = NotifyLatch(task[t].sess)
    /\ td' = NotifyTd(td, task[t].sess, "post_send_error")
    /\ Returned(t, [kind |-> "err", err |-> "Failed to list tools"])
    /\ UNCHANGED <<connections, tools_cache, events, sid, skind, hbCancel, hb, calls>>
    /\ UNCHANGED <<sse, config_repo, ticker, http, cmd, locks>>

\* -------------------------------------------------------------- call_tool
\* What the transport does with a tools/call request: it answers after `at`
\* seconds (a result, a result flagged is_error, or a failure), or never.
ReplyTimes == {CALL_TIMEOUT_SECS - 1}
CallOutcomes ==
    [kind : {"result", "tool_error", "failure"}, at : ReplyTimes, lag : {0}]
    \cup [kind : {"never"}, at : {0}, lag : {0, 1}]

\* Variant: the timeout arm propagates the timeout as an error.
CallToolResultTimeoutErr(outcome) ==
    IF outcome.kind = "never" \/ outcome.at >= CALL_TIMEOUT_SECS
    THEN [kind |-> "err", success |-> FALSE, result |-> <<>>,
          error |-> <<"Request timed out after 30 seconds">>,
          duration_ms |-> (CALL_TIMEOUT_SECS + outcome.lag) * 1000, outcome |-> outcome]
    ELSE [kind |-> "ok", success |-> outcome.kind = "result",
          result |-> IF outcome.kind = "failure" THEN <<>> ELSE <<"content">>,
          error |-> IF outcome.kind = "failure" THEN <<"request failed">> ELSE <<>>,
          duration_ms |-> (outcome.at + outcome.lag) * 1000, outcome |-> outcome]

\* tokio::time::timeout(30 s, call) and the match on its result; duration_ms
\* is start.elapsed() taken in the arm that handles the outcome.
CallToolResult(outcome) ==
    IF outcome.kind = "never" \/ outcome.at >= CALL_TIMEOUT_SECS
    THEN [kind |-> "ok", success |-> FALSE, result |-> <<>>,
          error |-> <<"Request timed out after 30 seconds">>,
          duration_ms |-> (CALL_TIMEOUT_SECS + outcome.lag) * 1000, outcome |-> outcome]
    ELSE IF outcome.kind = "failure"
    THEN [kind |-> "ok", success |-> FALSE, result |-> <<>>,
          error |-> <<"request failed">>,
          duration_ms |-> (outcome.at + outcome.lag) * 1000, outcome |-> outcome]
    ELSE [kind |-> "ok", success |-> outcome.kind # "tool_error", result |-> <<"content">>,
          error |-> <<>>,
          duration_ms |-> (outcome.at + outcome.lag) * 1000, outcome |-> outcome]

\* call_tool up to the tools/call request: the lookup under the read lock,
\* which stays held while the request is awaited.
CallGet(t, i) ==
    /\ CanStart(t)
    /\ CanRead
    /\ LET call == [Idle EXCEPT !.op = "call_tool", !.id = i]
       IN IF i \in DOMAIN connections
          THEN task' = [task EXCEPT ![t] = [call EXCEPT !.pc = "k_call", !.sess = connections[i]]]
          ELSE task' = [task EXCEPT ![t] = [call EXCEPT !.pc = "returned",
                           !.ret = [kind |-> "err", err |-> "Not connected to server",
                                    outcome |-> [kind |-> "unsent", at |-> 0, lag |-> 0]]]]
    /\ UNCHANGED <<connections, tools_cache, events, sid, skind, worker,
                   notified, hbCancel, hb, td>>
    /\ calls' = calls + 1
    /\ UNCHANGED <<sse, config_repo, ticker, http, cmd, locks>>

\* Variant: a call that timed out drops its session from the registry.
CallReplyTearsDown(t, outcome) ==
    /\ task[t].pc = "k_call"
    /\ outcome.kind \in {"result", "tool_error"} => worker[task[t].sess] = "running"
    /\ connections' = IF outcome.kind = "never" THEN MapRemove(connections, task[t].id)
                      ELSE connections
    /\ Returned(t, CallToolResult(outcome))
    /\ UNCHANGED <<tools_cache, events, sid, skind, worker,
                   notified, hbCancel, hb, td, calls>>
    /\ UNCHANGED <<sse, config_repo, ticker, http, cmd, locks>>

\* The request ends (answer, failure or timeout) and call_tool returns.
CallReply(t, outcome) ==
    /\ task[t].pc = "k_call"
    /\ outcome.kind \in {"result", "tool_error"} => worker[task[t].sess] = "running"
    /\ Returned(t, CallToolResult(outcome))
    /\ UNCHANGED <<connections, tools_cache, events, sid, skind, worker,
                   notified, hbCancel, hb, td, calls>>
    /\ UNCHANGED <<sse, config_repo, ticker, http, cmd, locks>>

\* The POST of the request fails in the SSE worker, which notifies the
\* disconnect and ends; the request fails.
CallPostFail(t, outcome) ==
    /\ task[t].pc = "k_call"
    /\ outcome.kind = "failure"
    /\ skind[task[t].sess] = "sse"
    /\ worker[task[t].sess] = "running"
    /\ worker' = [worker EXCEPT ![task[t].sess] = "closed"]
    /\ notified' = NotifyLatch(task[t].sess)
    /\ td' = NotifyTd(td, task[t].sess, "post_send_error")
    /\ Returned(t, CallToolResult(outcome))
    /\ UNCHANGED <<connections, tools_cache, events, sid, skind, hbCancel, hb, calls>>
    /\ UNCHANGED <<sse, config_repo, ticker, http, cmd, locks>>

\* --------------------------------------------------------- get_server_info
\* The lookup under the read lock, then conn.client.peer_info(), which asks
\* nothing of the transport: the info is what the handshake gave.
GetServerInfo(t, i) ==
    /\ CanStart(t)
    /\ CanRead
    /\ LET call == [Idle EXCEPT !.op = "get_server_info", !.id = i, !.pc = "returned"]
       IN IF i \in DOMAIN connections
          THEN task' = [task EXCEPT ![t] = [call EXCEPT !.sess = connections[i],
                           !.ret = [kind |-> "ok"]]]
          ELSE task' = [task EXCEPT ![t] = [call EXCEPT
                           !.ret = [kind |-> "err", err |-> "Not connected to server"]]]
    /\ UNCHANGED <<connections, tools_cache, events, sid, skind, worker,
                   notified, hbCancel, hb, td>>
    /\ calls' = calls + 1
    /\ UNCHANGED <<sse, config_repo, ticker, http, cmd, locks>>

\* ---------------------------------------------------------- disconnect_all
\* Nothing but the registered sessions and their waiting heartbeats is under
\* way: no other request, no teardown run that has not finished.
Quiet(t) ==
    /\ \A u \in Callers \ {t} : Free(u)
    /\ \A o \in Owners : td[o].pc \in {"none", "done"}
    /\ \A s \in Sessions : hb[s].pc \in {"none", "wait", "done"}

\* connections.write(), then drain(): every entry leaves the map; the
\* entries are handled one by one below, the lock being held throughout.
\* The result keeps what the call drained and, for the statements about its
\* consequences, how it found the manager (quiet, events published so far,
\* its number among the requests).
DisconnectAllBegin(t) ==
    /\ CanStart(t)
    /\ CanWrite
    /\ connections' = EmptyMap
    /\ task' = [task EXCEPT ![t] = [Idle EXCEPT !.op = "disconnect_all", !.pc = "a_drain",
                   !.ret = [kind |-> "-", todo |-> {connections[i] : i \in DOMAIN connections},
                            drained |-> {connections[i] : i \in DOMAIN connections},
                            quiet |-> Quiet(t), base |-> BagCardinality(events),
                            nth |-> calls + 1]]]
    /\ UNCHANGED <<tools_cache, events, sid, skind, worker, notified, hbCancel, hb, td>>
    /\ calls' = calls + 1
    /\ UNCHANGED <<sse, config_repo, ticker, http, cmd, locks>>

\* One drained entry: heartbeat_cancel.cancel(), client.cancel().await.
DisconnectAllNext(t, s) ==
    /\ task[t].pc = "a_drain"
    /\ s \in task[t].ret.todo
    /\ hbCancel' = [hbCancel EXCEPT ![s] = TRUE]
    /\ worker' = [worker EXCEPT ![s] = "closed"]
    /\ task' = [task EXCEPT ![t].ret.todo = @ \ {s}]
    /\ UNCHANGED <<connections, tools_cache, events, sid, skind, notified, hb, td, calls>>
    /\ UNCHANGED <<sse, config_repo, ticker, http, cmd, locks>>

DisconnectAllEnd(t) ==
    /\ task[t].pc = "a_drain"
    /\ task[t].ret.todo = {}
    /\ Returned(t, [task[t].ret EXCEPT !.kind = "ok"])
    /\ UNCHANGED <<connections, tools_cache, events, sid, skind, worker,
                   notified, hbCancel, hb, td, calls>>
    /\ UNCHANGED <<sse, config_repo, ticker, http, cmd, locks>>

\* -------------------------------------------------------------- heartbeat
\* matches!(&e, AppError::Io(msg) if msg.contains("Transport closed")
\*                               || msg.contains("Connection reset"))
IsTransportClosed(e) == e \in {"Transport closed", "Connection reset"}

\* The Err arm with a threshold of two consecutive failures.
HbAfterFailureTolerant(s, e) ==
    LET n == hb[s].fails + 1
    IN IF n >= MAX_FAILURES + 1 \/ IsTransportClosed(e)
       THEN [pc |-> "teardown", fails |-> n, conn |-> 0]
       ELSE [pc |-> "wait", fails |-> n, conn |-> 0]

\* The Err arm of run_heartbeat: count the failure, then either start
\* handle_transport_disconnect(server_id, "heartbeat_failed") or tick on.
HbAfterFailure(s, e) ==
    LET n == hb[s].fails + 1
    IN IF n >= MAX_FAILURES \/ IsTransportClosed(e)
       THEN [pc |-> "teardown", fails |-> n, conn |-> 0]
       ELSE [pc |-> "wait", fails |-> n, conn |-> 0]
HbTd(runs, s, h) ==
    IF h.pc = "teardown"
    THEN [runs EXCEPT ![<<s, "hb">>] = [pc |-> "remove", reason |-> "heartbeat_failed", conn |-> 0]]
    ELSE runs

\* select!: the cancelled() branch.
HbCancelled(s) ==
    /\ hb[s].pc = "wait"
    /\ hbCancel[s]
    /\ hb' = [hb EXCEPT ![s].pc = "done"]
    /\ UNCHANGED <<connections, tools_cache, events, task, sid, skind, worker,
                   notified, hbCancel, td, calls>>
    /\ UNCHANGED <<sse, config_repo, ticker, http, cmd, locks>>

\* select!: the tick branch up to the request of ping_server: the lookup
\* under the read lock, which stays held while the request is awaited.  With
\* both branches ready select! may take either, and a heartbeat that took the
\* tick branch waits in connections.read() while disconnect or disconnect_all
\* holds the write lock and cancels its token: either way the lookup can
\* come after the cancellation, so a cancelled token does not disable the
\* tick.
HbTick(s) ==
    /\ hb[s].pc = "wait"
    /\ CanRead
    /\ LET i == sid[s]
           failed == HbAfterFailure(s, "Not connected to server")
       IN IF i \in DOMAIN connections
          THEN /\ hb' = [hb EXCEPT ![s].pc = "call", ![s].conn = connections[i]]
               /\ UNCHANGED td
          ELSE /\ hb' = [hb EXCEPT ![s] = failed]
               /\ td' = HbTd(td, s, failed)
    /\ UNCHANGED <<connections, tools_cache, events, task, sid, skind, worker,
                   notified, hbCancel, calls>>
    /\ UNCHANGED <<sse, config_repo, ticker, http, cmd, locks>>

\* Variant: a successful health check drives the teardown.
HbReplyOkTearsDown(s) ==
    /\ hb[s].pc = "call"
    /\ worker[hb[s].conn] = "running"
    /\ hb' = [hb EXCEPT ![s] = [pc |-> "teardown", fails |-> 0, conn |-> 0]]
    /\ td' = [td EXCEPT ![<<s, "hb">>] =
                 [pc |-> "remove", reason |-> "heartbeat_failed", conn |-> 0]]
    /\ UNCHANGED <<connections, tools_cache, events, task, sid, skind, worker,
                   notified, hbCancel, calls>>
    /\ UNCHANGED <<sse, config_repo, ticker, http, cmd, locks>>

\* The health check succeeds.
HbReplyOk(s) ==
    /\ hb[s].pc = "call"
    /\ worker[hb[s].conn] = "running"
    /\ hb' = [hb EXCEPT ![s] = [pc |-> "wait", fails |-> 0, conn |-> 0]]
    /\ UNCHANGED <<connections, tools_cache, events, task, sid, skind, worker,
                   notified, hbCancel, td, calls>>
    /\ UNCHANGED <<sse, config_repo, ticker, http, cmd, locks>>

\* The health check fails.
HbReplyErr(s, e) ==
    /\ hb[s].pc = "call"
    /\ hb' = [hb EXCEPT ![s] = HbAfterFailure(s, e)]
    /\ td' = HbTd(td, s, HbAfterFailure(s, e))
    /\ UNCHANGED <<connections, tools_cache, events, task, sid, skind, worker,
                   notified, hbCancel, calls>>
    /\ UNCHANGED <<sse, config_repo, ticker, http, cmd, locks>>

\* The POST of the health check fails in the SSE worker, which notifies the
\* disconnect and ends; the health check fails.
HbPostFail(s, e) ==
    /\ hb[s].pc = "call"
    /\ skind[hb[s].conn] = "sse"
    /\ worker[hb[s].conn] = "running"
    /\ worker' = [worker EXCEPT ![hb[s].conn] = "closed"]
    /\ notified' = NotifyLatch(hb[s].conn)
    /\ hb' = [hb EXCEPT ![s] = HbAfterFailure(s, e)]
    /\ td' = HbTd(NotifyTd(td, hb[s].conn, "post_send_error"), s, HbAfterFailure(s, e))
    /\ UNCHANGED <<connections, tools_cache, events, task, sid, skind, hbCancel, calls>>
    /\ UNCHANGED <<sse, config_repo, ticker, http, cmd, locks>>

\* ------------------------------------------------------------- SSE worker
\* The event stream of a running SSE worker closes or fails: the worker
\* notifies the disconnect and ends.
WorkerStreamEnd(s, reason) ==
    /\ skind[s] = "sse"
    /\ worker[s] = "running"
    /\ worker' = [worker EXCEPT ![s] = "closed"]
    /\ notified' = NotifyLatch(s)
    /\ td' = NotifyTd(td, s, reason)
    /\ UNCHANGED <<connections, tools_cache, events, task, sid, skind, hbCancel, hb, calls>>
    /\ UNCHANGED <<sse, config_repo, ticker, http, cmd, locks>>

Next ==
    \/ \E t \in Callers, i \in Ids, st \in ServerTypes : ConnectCheck(t, i, st)
    \/ \E t \in Callers : ConnectServeOk(t)
    \/ \E t \in Callers : ConnectServeErr(t)
    \/ \E t \in Callers, r \in HandshakeReasons : ConnectServeWorkerEnd(t, r)
    \/ \E t \in Callers : ConnectInsert(t)
    \/ \E t \in Callers, i \in Ids : DisconnectRemove(t, i)
    \/ \E t \in Callers : DisconnectFinish(t)
    \/ \E t \in Callers, i \in Ids : IsConnected(t, i)
    \/ \E t \in Callers, i \in Ids : ListGet(t, i)
    \/ \E t \in Callers, reply \in ServerReplies : ListReplyOk(t, reply)
    \/ \E t \in Callers : ListReplyErr(t)
    \/ \E t \in Callers : ListPostFail(t)
    \/ \E t \in Callers, i \in Ids : CallGet(t, i)
    \/ \E t \in Callers, i \in Ids : GetServerInfo(t, i)
    \/ \E t \in Callers, outcome \in CallOutcomes : CallReply(t, outcome)
    \/ \E t \in Callers, outcome \in CallOutcomes : CallPostFail(t, outcome)
    \/ \E t \in Callers : DisconnectAllBegin(t)
    \/ \E t \in Callers, s \in Sessions : DisconnectAllNext(t, s)
    \/ \E t \in Callers : DisconnectAllEnd(t)
    \/ \E s \in Sessions : HbCancelled(s)
    \/ \E s \in Sessions : HbTick(s)
    \/ \E s \in Sessions : HbReplyOk(s)
    \/ \E s \in Sessions, e \in RpcErrors : HbReplyErr(s, e)
    \/ \E s \in Sessions, e \in RpcErrors : HbPostFail(s, e)
    \/ \E s \in Sessions, r \in StreamReasons : WorkerStreamEnd(s, r)
    \/ \E o \in Owners : HtdRemove(o)
    \/ \E o \in Owners : HtdFinish(o)

Spec == Init /\ [][Next]_vars

\* ======================================================================
\* SseWorker::run, step by step
\* ======================================================================
\* One worker is followed: the one of session SseSession, built by a
\* connect(SseId, url, "sse") whose serve() is under way.  Its disconnect
\* callback is the one connect builds (NotifyTd), so a notification runs
\* handle_transport_disconnect (HtdRemove) as in the manager.
SseSession == 1
SseId == 1

\* The URLs given to SseWorker::new, as reqwest::Url::parse splits them.
GetUrls ==
    { [scheme |-> "http", host |-> "h", port |-> ":9000", path |-> "/bar"],
      [scheme |-> "https", host |-> "example.org", port |-> "", path |-> "/sse"] }
UrlString(u) == u.scheme \o "://" \o u.host \o u.port \o u.path

\* Variant: base_url is the whole URL (the branch taken when the URL does not
\* parse).
BaseUrlWhole(u) == UrlString(u)

\* base_url of SseWorker::new: scheme://host, then :port when there is one.
BaseUrl(u) == (u.scheme \o "://" \o u.host) \o u.port

\* str::starts_with and str::trim (spaces are the whitespace that occurs).
StartsWith(str, prefix) ==
    Len(str) >= Len(prefix) /\ SubSeq(str, 1, Len(prefix)) = prefix
RECURSIVE Trim(_)
Trim(str) ==
    IF Len(str) = 0 THEN str
    ELSE IF SubSeq(str, 1, 1) = " " THEN Trim(SubSeq(str, 2, Len(str)))
    ELSE IF SubSeq(str, Len(str), Len(str)) = " " THEN Trim(SubSeq(str, 1, Len(str) - 1))
    ELSE str

\* The full POST URL built in phase 1 from the data of an endpoint event.
FullUrl(base_url, data) ==
    LET endpoint == Trim(data)
    IN IF StartsWith(endpoint, "http://") \/ StartsWith(endpoint, "https://")
       THEN endpoint
       ELSE base_url \o endpoint

\* The events a server can put on the stream.
EndpointData == {"/foo/123", " /messages?id=7 ", "https://other.example/post"}
ValidJsonRpc ==
    { "{\"jsonrpc\":\"2.0\",\"id\":1,\"result\":{}}",
      "{\"jsonrpc\":\"2.0\",\"method\":\"notifications/progress\"}" }
ValidJson == ValidJsonRpc \cup {"{\"x\":1}"}
MessageData == ValidJson \cup {"not json"}
SseEvents ==
    [event : {"endpoint"}, data : EndpointData]
    \cup [event : {"message"}, data : MessageData]
    \cup [event : {"ping"}, data : {""}]

\* The messages the handler sends through the worker.
Outbound == {"initialize", "tools/list"}

\* How many stream events the worker is given, how many messages the handler
\* queues.
MaxStreamEvents == 3
MaxOutbound == 2

NoEvent == [event |-> "-", data |-> ""]
\* What sse_stream.next() gives besides events: Some(Err(_)) and None.
StreamErr == [event |-> "Some(Err)", data |-> ""]
StreamNone == [event |-> "None", data |-> ""]
InitWorker(u) ==
    [pc |-> "get", quit |-> "-", reason |-> "-", url |-> u, post_url |-> <<>>,
     cancelled |-> FALSE, outbox |-> <<>>, sending |-> <<>>, posts |-> <<>>,
     replies |-> <<>>, delivered |-> <<>>, parse_errors |-> 0,
     seen |-> 0, last |-> NoEvent, inbound |-> <<>>]

\* The manager as connect(SseId, url, "sse") leaves it when it awaits serve().
InitSse ==
    /\ connections = EmptyMap
    /\ tools_cache = EmptyMap
    /\ events = EmptyBag
    /\ task = [t \in Callers |->
                 IF t = 1
                 THEN [Idle EXCEPT !.op = "connect", !.id = SseId, !.pc = "c_serve",
                          !.sess = SseSession, !.ret = [kind |-> "-", tag |-> "sse"]]
                 ELSE Idle]
    /\ sid = [s \in Sessions |-> IF s = SseSession THEN SseId ELSE 0]
    /\ skind = [s \in Sessions |-> IF s = SseSession THEN SelectTransport("sse") ELSE "-"]
    /\ worker = [s \in Sessions |-> IF s = SseSession THEN "serving" ELSE "none"]
    /\ notified = [s \in Sessions |-> FALSE]
    /\ hbCancel = [s \in Sessions |-> FALSE]
    /\ hb = [s \in Sessions |-> NoHb]
    /\ td = [o \in Owners |-> NoTd]
    /\ calls = 1
    /\ \E u \in GetUrls : sse = InitWorker(u)
    /\ config_repo = NoRepo
    /\ ticker = NoTickers
    /\ http = NoServer
    /\ cmd = NoCommands
    /\ locks = NoLocks

\* What a step of the worker leaves alone in the manager.
SseFrame ==
    UNCHANGED <<connections, tools_cache, events, task, sid, skind, hbCancel, hb, calls,
                config_repo, ticker, http, cmd, locks>>

\* run returns Err(quit) after self.notify_disconnect(reason).
SseQuitNotified(w, quit, reason) ==
    /\ sse' = [w EXCEPT !.pc = "ended", !.quit = quit, !.reason = reason]
    /\ notified' = NotifyLatch(SseSession)
    /\ td' = NotifyTd(td, SseSession, reason)
    /\ worker' = [worker EXCEPT ![SseSession] = "closed"]
    /\ SseFrame

\* run returns Err(quit) without a call of notify_disconnect.
SseQuitSilent(w, quit) ==
    /\ sse' = [w EXCEPT !.pc = "ended", !.quit = quit]
    /\ worker' = [worker EXCEPT ![SseSession] = "closed"]
    /\ UNCHANGED <<notified, td>>
    /\ SseFrame

\* run goes on.
SseGoesOn(w) ==
    /\ sse' = w
    /\ UNCHANGED <<worker, notified, td>>
    /\ SseFrame

\* The stream yields event e: it is counted and remembered.
Seen(e) == [sse EXCEPT !.seen = @ + 1, !.last = e]

\* ------------------------------------------------------------ the GET
\* client.get(url).send() fails: run returns Fatal through map_err and `?`.
SseGetFails ==
    /\ sse.pc = "get"
    /\ SseQuitSilent(sse, "Fatal")

\* The response is not 2xx.
SseGetStatusError ==
    /\ sse.pc = "get"
    /\ SseQuitNotified(sse, "Fatal", "sse_initial_response_error")

\* The response is 2xx: the event stream is open, phase 1 begins.
SseGetOk ==
    /\ sse.pc = "get"
    /\ SseGoesOn([sse EXCEPT !.pc = "awaiting"])

\* ------------------------------------------------- phase 1: the endpoint
\* Variant: phase 1 hands message events to the handler.
SseHandshakeEventDelivers(e) ==
    /\ sse.pc = "awaiting"
    /\ sse.seen < MaxStreamEvents
    /\ IF e.event = "endpoint"
       THEN /\ sse' = [Seen(e) EXCEPT !.pc = "streaming",
                          !.post_url = <<FullUrl(BaseUrl(sse.url), e.data)>>]
            /\ worker' = [worker EXCEPT ![SseSession] = "running"]
       ELSE /\ sse' = IF e.event = "message" /\ e.data \in ValidJsonRpc
                      THEN [Seen(e) EXCEPT !.delivered = Append(@, e.data)]
                      ELSE Seen(e)
            /\ UNCHANGED worker
    /\ UNCHANGED <<notified, td>>
    /\ SseFrame

\* select!: sse_stream.next() gives Some(Ok(event)).  An endpoint event sets
\* the POST URL and ends the phase; any other event is passed over.
SseHandshakeEvent(e) ==
    /\ sse.pc = "awaiting"
    /\ sse.seen < MaxStreamEvents
    /\ IF e.event = "endpoint"
       THEN /\ sse' = [Seen(e) EXCEPT !.pc = "streaming",
                          !.post_url = <<FullUrl(BaseUrl(sse.url), e.data)>>]
            /\ worker' = [worker EXCEPT ![SseSession] = "running"]
       ELSE /\ sse' = Seen(e)
            /\ UNCHANGED worker
    /\ UNCHANGED <<notified, td>>
    /\ SseFrame

\* sse_stream.next() gives Some(Err(_)).
SseHandshakeStreamError ==
    /\ sse.pc = "awaiting"
    /\ SseQuitNotified([sse EXCEPT !.last = StreamErr], "Fatal",
                       "sse_stream_error_before_endpoint")

\* Variant: the stream's end in phase 1 is not notified.
SseHandshakeStreamClosedSilent ==
    /\ sse.pc = "awaiting"
    /\ SseQuitSilent([sse EXCEPT !.last = StreamNone], "Fatal")

\* sse_stream.next() gives None.
SseHandshakeStreamClosed ==
    /\ sse.pc = "awaiting"
    /\ SseQuitNotified([sse EXCEPT !.last = StreamNone], "Fatal",
                       "sse_stream_closed_before_endpoint")

\* select!: ct.cancelled().
SseHandshakeCancelled ==
    /\ sse.pc = "awaiting"
    /\ sse.cancelled
    /\ SseQuitSilent(sse, "Cancelled")

\* ---------------------------------------------------- phase 2: messages
\* select!: context.recv_from_handler() gives a request; its message is
\* serialized and POSTed to the endpoint, and the POST is awaited.
SseTakeOutbound ==
    /\ sse.pc = "streaming"
    /\ sse.outbox # <<>>
    /\ SseGoesOn([sse EXCEPT !.pc = "posting", !.outbox = Tail(@),
                     !.sending = <<Head(sse.outbox)>>,
                     !.posts = Append(@, [url |-> sse.post_url[1], body |-> Head(sse.outbox)])])

\* The POST is answered 2xx: responder.send(Ok(())).  A request can only be
\* sent to an absolute URL: client.post() of anything else gives a builder
\* whose send() is an Err.
SsePostOk ==
    /\ sse.pc = "posting"
    /\ LET url == sse.posts[Len(sse.posts)].url
       IN StartsWith(url, "http://") \/ StartsWith(url, "https://")
    /\ SseGoesOn([sse EXCEPT !.pc = "streaming", !.sending = <<>>,
                     !.replies = Append(@, [message |-> sse.sending[1], result |-> "Ok"])])

\* Variant: a failed POST puts the message back and the worker goes on.
SsePostFailsRetries ==
    /\ sse.pc = "posting"
    /\ SseGoesOn([sse EXCEPT !.pc = "streaming", !.sending = <<>>,
                     !.outbox = <<sse.sending[1]>> \o @])

\* The POST is answered non-2xx or cannot be sent: notify_disconnect, then
\* responder.send(Err(err)), then run returns Fatal.
SsePostFails ==
    /\ sse.pc = "posting"
    /\ SseQuitNotified([sse EXCEPT !.sending = <<>>,
                           !.replies = Append(@, [message |-> sse.sending[1], result |-> "Err"])],
                       "Fatal", "post_send_error")

\* Variant: a message that does not parse ends the worker.
SseStreamEventStrict(e) ==
    /\ sse.pc = "streaming"
    /\ sse.seen < MaxStreamEvents
    /\ IF e.event = "message" /\ e.data \notin ValidJsonRpc
       THEN SseQuitNotified(Seen(e), "Fatal", "sse_stream_error")
       ELSE SseGoesOn(
              CASE e.event = "endpoint" -> [Seen(e) EXCEPT !.post_url = <<Trim(e.data)>>]
                [] e.event = "message" -> [Seen(e) EXCEPT !.delivered = Append(@, e.data)]
                [] OTHER -> Seen(e))

\* select!: sse_stream.next() gives Some(Ok(event)): the match on event.event.
SseStreamEvent(e) ==
    /\ sse.pc = "streaming"
    /\ sse.seen < MaxStreamEvents
    /\ SseGoesOn(
         CASE e.event = "endpoint" -> [Seen(e) EXCEPT !.post_url = <<Trim(e.data)>>]
           [] e.event = "message" /\ e.data \in ValidJsonRpc ->
                 [Seen(e) EXCEPT !.delivered = Append(@, e.data)]
           [] e.event = "message" /\ e.data \notin ValidJsonRpc ->
                 [Seen(e) EXCEPT !.parse_errors = @ + 1]
           [] OTHER -> Seen(e))

\* sse_stream.next() gives Some(Err(_)).
SseStreamError ==
    /\ sse.pc = "streaming"
    /\ SseQuitNotified([sse EXCEPT !.last = StreamErr], "Fatal", "sse_stream_error")

\* Variant: the stream's end in phase 2 is a Fatal quit.
SseStreamClosedFatal ==
    /\ sse.pc = "streaming"
    /\ SseQuitNotified([sse EXCEPT !.last = StreamNone], "Fatal", "sse_stream_closed")

\* sse_stream.next() gives None.
SseStreamClosed ==
    /\ sse.pc = "streaming"
    /\ SseQuitNotified([sse EXCEPT !.last = StreamNone], "TransportClosed",
                       "sse_stream_closed")

\* The handler's side of the channel is gone: context.recv_from_handler()
\* gives Err (`request?`) or context.send_to_handler(..) does
\* (`.await?`), and run returns with that quit reason.
SseHandlerGone ==
    /\ sse.pc = "streaming"
    /\ SseQuitSilent(sse, "HandlerTerminated")

\* select!: ct.cancelled().
SseCancelled ==
    /\ sse.pc = "streaming"
    /\ sse.cancelled
    /\ SseQuitSilent(sse, "Cancelled")

\* ------------------------------------------------ around the worker
\* The cancellation token of the worker's context is cancelled.
SseCancel ==
    /\ sse.pc \in {"get", "awaiting", "streaming", "posting"}
    /\ ~sse.cancelled
    /\ SseGoesOn([sse EXCEPT !.cancelled = TRUE])

\* The handler sends message m through the transport.
SseHandlerSends(m) ==
    /\ sse.pc \in {"get", "awaiting", "streaming", "posting"}
    /\ Len(sse.outbox) + Len(sse.posts) < MaxOutbound
    /\ SseGoesOn([sse EXCEPT !.outbox = Append(@, m)])

\* ------------------------------------------------ the manager around it
\* serve() returns Ok: the worker is in phase 2, the initialize request was
\* POSTed and an answer was given to the handler.
SseServeOk ==
    /\ sse.pc = "streaming"
    /\ \E k \in 1..Len(sse.posts) : sse.posts[k].body = "initialize"
    /\ sse.delivered # <<>>
    /\ task[1].pc = "c_serve"
    /\ task' = [task EXCEPT ![1].pc = "c_insert"]
    /\ UNCHANGED <<connections, tools_cache, events, sid, skind, worker, notified,
                   hbCancel, hb, td, calls, sse, config_repo, ticker, http, cmd, locks>>

\* conn.client.cancel().await of a teardown run returns once the worker
\* has ended.
SseHtdFinish(o) ==
    /\ sse.pc = "ended"
    /\ HtdFinish(o)

NextSse ==
    \/ SseGetFails
    \/ SseGetStatusError
    \/ SseGetOk
    \/ \E e \in SseEvents : SseHandshakeEvent(e)
    \/ SseHandshakeStreamError
    \/ SseHandshakeStreamClosed
    \/ SseHandshakeCancelled
    \/ SseTakeOutbound
    \/ SsePostOk
    \/ SsePostFails
    \/ \E e \in SseEvents : SseStreamEvent(e)
    \/ SseStreamError
    \/ SseStreamClosed
    \/ SseCancelled
    \/ SseHandlerGone
    \/ SseCancel
    \/ \E m \in Outbound : SseHandlerSends(m)
    \/ \E o \in Owners : HtdRemove(o)
    \/ \E o \in Owners : SseHtdFinish(o)
    \/ SseServeOk
    \/ ConnectInsert(1)
    \/ HbCancelled(SseSession)
    \/ HbTick(SseSession)
    \/ HbReplyOk(SseSession)
    \/ \E e \in RpcErrors : HbReplyErr(SseSession, e)

SpecSse == InitSse /\ [][NextSse]_vars

\* ======================================================================
\* run_heartbeat: the interval, from the configuration to the ticker
\* ======================================================================
DEFAULT_HEARTBEAT_INTERVAL_SECS == 10

\* What a heartbeat_interval entry can hold.
ConfigValues ==
    {"30", "0", "007", "+5", "", "abc", "-3", " 5", "1.5", "18446744073709551616"}
\* The repository handed to set_config_repo, by what its
\* get("heartbeat_interval") gives: Err(_), Ok(None) or Ok(Some(value)).
ConfigRepos ==
    {[repo |-> "Some", get |-> g, value |-> ""] : g \in {"Err", "Ok(None)"}}
        \cup {[repo |-> "Some", get |-> "Ok(Some)", value |-> v] : v \in ConfigValues}

\* str::parse::<u64>(): an optional "+", then decimal digits only, at least
\* one, whose value fits 64 bits; anything else is an Err.
Digits == "0123456789"
IsDigit(c) == \E d \in 1..Len(Digits) : SubSeq(Digits, d, d) = c
DigitValue(c) == (CHOOSE d \in 1..Len(Digits) : SubSeq(Digits, d, d) = c) - 1
RECURSIVE AllDigits(_)
AllDigits(str) ==
    Len(str) = 0 \/ (IsDigit(SubSeq(str, 1, 1)) /\ AllDigits(SubSeq(str, 2, Len(str))))
RECURSIVE StripZeros(_)
StripZeros(str) ==
    IF Len(str) > 1 /\ SubSeq(str, 1, 1) = "0" THEN StripZeros(SubSeq(str, 2, Len(str))) ELSE str
U64Max == "18446744073709551615"
\* Of two digit strings of the same length: a is the greater number.
RECURSIVE DigitsGreater(_, _)
DigitsGreater(a, b) ==
    /\ Len(a) > 0
    /\ LET x == DigitValue(SubSeq(a, 1, 1))
           y == DigitValue(SubSeq(b, 1, 1))
       IN x > y \/ (x = y /\ DigitsGreater(SubSeq(a, 2, Len(a)), SubSeq(b, 2, Len(b))))
PosOverflow(digits) ==
    LET d == StripZeros(digits)
    IN Len(d) > Len(U64Max) \/ (Len(d) = Len(U64Max) /\ DigitsGreater(d, U64Max))
RECURSIVE DecimalValue(_)
DecimalValue(digits) ==
    IF Len(digits) = 0 THEN 0
    ELSE 10 * DecimalValue(SubSeq(digits, 1, Len(digits) - 1))
            + DigitValue(SubSeq(digits, Len(digits), Len(digits)))
ParseErr == [ok |-> FALSE, value |-> 0]
\* Variant: surrounding blanks are trimmed and a sign is read as part of the
\* number's size.
ParseU64Lenient(str) ==
    LET t == Trim(str)
        digits == IF Len(t) > 0 /\ SubSeq(t, 1, 1) \in {"+", "-"}
                  THEN SubSeq(t, 2, Len(t)) ELSE t
    IN IF Len(digits) = 0 \/ ~AllDigits(digits) \/ PosOverflow(digits)
       THEN ParseErr
       ELSE [ok |-> TRUE, value |-> DecimalValue(digits)]
ParseU64(str) ==
    LET digits == IF Len(str) > 0 /\ SubSeq(str, 1, 1) = "+"
                  THEN SubSeq(str, 2, Len(str)) ELSE str
    IN IF Len(digits) = 0 \/ ~AllDigits(digits) \/ PosOverflow(digits)
       THEN ParseErr
       ELSE [ok |-> TRUE, value |-> DecimalValue(digits)]

\* The block that gives heartbeat_interval.
HeartbeatInterval(cfg) ==
    IF cfg.repo = "Some" /\ cfg.get = "Ok(Some)" /\ ParseU64(cfg.value).ok
    THEN ParseU64(cfg.value).value
    ELSE DEFAULT_HEARTBEAT_INTERVAL_SECS

InitInterval ==
    /\ InitManager
    /\ sse = NoWorker
    /\ config_repo = NoRepo
    /\ ticker = NoTickers
    /\ http = NoServer
    /\ cmd = NoCommands
    /\ locks = NoLocks

IntervalFrame ==
    UNCHANGED <<connections, tools_cache, events, task, sid, skind, worker,
                notified, hbCancel, hb, td, calls, sse, http, cmd, locks>>

\* set_config_repo(config_repo), or the stored entry is changed by the
\* application's configuration commands.
SetConfigRepo(r) ==
    /\ config_repo # r
    /\ config_repo' = r
    /\ UNCHANGED ticker
    /\ IntervalFrame

\* A heartbeat task starts: it reads the interval and builds its ticker.
\* tokio::time::interval panics on a zero period, which ends the task.
HeartbeatStart(s) ==
    /\ ticker[s].state = "none"
    /\ LET secs == HeartbeatInterval(config_repo)
       IN ticker' = [ticker EXCEPT ![s] =
                        [state |-> IF secs = 0 THEN "panicked" ELSE "ticking",
                         secs |-> secs, from |-> config_repo]]
    /\ UNCHANGED config_repo
    /\ IntervalFrame

\* The heartbeat task has ended and a later connect starts another.
HeartbeatGone(s) ==
    /\ ticker[s].state # "none"
    /\ ticker' = [ticker EXCEPT ![s] = [state |-> "none"]]
    /\ UNCHANGED config_repo
    /\ IntervalFrame

NextInterval ==
    \/ \E r \in ConfigRepos : SetConfigRepo(r)
    \/ \E s \in Sessions : HeartbeatStart(s)
    \/ \E s \in Sessions : HeartbeatGone(s)

SpecInterval == InitInterval /\ [][NextInterval]_vars


\* ======================================================================
\* http_server: the webhook receiver and its callback
\* ======================================================================
MaxRequests == 3

\* str::to_ascii_lowercase.
AsciiUpper == "ABCDEFGHIJKLMNOPQRSTUVWXYZ"
AsciiLower == "abcdefghijklmnopqrstuvwxyz"
LowerChar(c) ==
    IF \E k \in 1..Len(AsciiUpper) : SubSeq(AsciiUpper, k, k) = c
    THEN LET k == CHOOSE k \in 1..Len(AsciiUpper) : SubSeq(AsciiUpper, k, k) = c
         IN SubSeq(AsciiLower, k, k)
    ELSE c
RECURSIVE ToAsciiLowercase(_)
ToAsciiLowercase(str) ==
    IF Len(str) = 0 THEN str
    ELSE LowerChar(SubSeq(str, 1, 1)) \o ToAsciiLowercase(SubSeq(str, 2, Len(str)))

\* The requests POSTed to /webhook/agent: a Content-Type header and a body.
\* A multipart body is named by its fields.
ContentTypes ==
    {"application/json", "Text/JSON; charset=utf-8", "multipart/form-data; boundary=x",
     "text/plain", ""}
JsonBodies == {"{\"requestId\":\"r1\"}", "{\"x\":1}"}
MultipartBodies == {"requestId=r1,file", "file", "requestId=r1", "", "file(unwritable)"}
Bodies == JsonBodies \cup MultipartBodies \cup {"not json"}
Requests == [content_type : ContentTypes, body : Bodies]

\* extract_request_id, or the fresh Uuid that stands in for it.
RequestIdOfJson(body) == IF body = "{\"requestId\":\"r1\"}" THEN "r1" ELSE "uuid"
\* The ReceivedMessageInfo of a request, by the fields that tell them apart.
JsonInfo(req) ==
    [request_id |-> RequestIdOfJson(req.body),
     content_type |-> IF req.content_type = "" THEN <<>> ELSE <<req.content_type>>,
     raw_data |-> <<req.body>>, file |-> FALSE]
MultipartInfo(body) ==
    [request_id |-> IF StartsWith(body, "requestId=r1") THEN "r1" ELSE "",
     content_type |-> IF body = "requestId=r1" THEN <<"text/plain">> ELSE <<>>,
     raw_data |-> <<>>, file |-> body # "requestId=r1"]

\* The error responses: success false, no data; the callback is not called.
ErrorResponse(status) == [status |-> status, success |-> FALSE, data |-> <<>>, callback |-> "-"]

\* Variant: the callback is called without catch_unwind; its panic unwinds
\* through the handler.
NotifyCallbackUnprotected(callback, outcome) ==
    IF ~callback THEN "none"
    ELSE IF outcome = "panics" THEN "unwound" ELSE "returned"
\* notify_callback: the callback of the ServerState, if any, is called under
\* catch_unwind; a panic is logged.
NotifyCallback(callback, outcome) ==
    IF ~callback THEN "none"
    ELSE IF outcome = "panics" THEN "caught" ELSE "returned"

\* respond_with_message: notify_callback, then the success response with the
\* info.  A panic that unwinds through it leaves the request without one.
RespondWithMessage(callback, outcome, info) ==
    LET called == NotifyCallback(callback, outcome)
    IN IF called = "unwound"
       THEN [status |-> "no response", success |-> FALSE, data |-> <<>>, callback |-> called]
       ELSE [status |-> "200 OK", success |-> TRUE, data |-> <<info>>, callback |-> called]

\* handle_receive: the dispatch on the lowercased Content-Type, then
\* handle_json_payload or handle_multipart_payload with process_multipart.
HandleReceive(callback, outcome, req) ==
    LET normalized == ToAsciiLowercase(req.content_type)
    IN IF StartsWith(normalized, "application/json") \/ StartsWith(normalized, "text/json")
       THEN IF req.body \in JsonBodies
            THEN RespondWithMessage(callback, outcome, JsonInfo(req))
            ELSE ErrorResponse("400 Bad Request")
       ELSE IF StartsWith(normalized, "multipart/form-data")
       THEN IF req.body \notin MultipartBodies THEN ErrorResponse("400 Bad Request")
            ELSE IF req.body = "file(unwritable)"
                 THEN ErrorResponse("500 Internal Server Error")
            ELSE IF req.body = "" THEN ErrorResponse("400 Bad Request")
            ELSE RespondWithMessage(callback, outcome, MultipartInfo(req.body))
       ELSE ErrorResponse("415 Unsupported Media Type")

InitHttp ==
    /\ InitManager
    /\ sse = NoWorker
    /\ config_repo = NoRepo
    /\ ticker = NoTickers
    /\ http = NoServer
    /\ cmd = NoCommands
    /\ locks = NoLocks

HttpFrame ==
    UNCHANGED <<connections, tools_cache, events, task, sid, skind, worker,
                notified, hbCancel, hb, td, calls, sse, config_repo, ticker, cmd, locks>>

\* set_callback.
HttpSetCallback ==
    /\ ~http.registered
    /\ http' = [http EXCEPT !.registered = TRUE]
    /\ HttpFrame

\* start: the ServerState takes a clone of the callback set so far, the
\* server task is spawned and the handle stored.
HttpStart ==
    /\ http.state = "stopped"
    /\ http' = [http EXCEPT !.state = "running", !.callback = http.registered]
    /\ HttpFrame

\* stop: the shutdown signal is sent.
HttpStop ==
    /\ http.state = "running"
    /\ http' = [http EXCEPT !.state = "stopped"]
    /\ HttpFrame

\* One request to /webhook/agent is handled; the callback, when called,
\* returns or panics.
HttpReceive(req, outcome) ==
    /\ http.state = "running"
    /\ Len(http.log) < MaxRequests
    /\ http' = [http EXCEPT !.log = Append(@, HandleReceive(http.callback, outcome, req))]
    /\ HttpFrame

NextHttp ==
    \/ HttpSetCallback
    \/ HttpStart
    \/ HttpStop
    \/ \E req \in Requests, outcome \in {"returns", "panics"} : HttpReceive(req, outcome)

SpecHttp == InitHttp /\ [][NextHttp]_vars


\* ======================================================================
\* mcp_commands: the connect command and the call-tool command
\* ======================================================================
\* A command handler runs on a caller that has made no request yet; the
\* requests it makes of the manager are that caller's requests.

\* server.server_type.to_string(): the Display of McpServerType.
McpServerTypes == {"sse", "stdio", "streamable_http"}

\* The manager before the commands: nothing registered; the cache is empty or
\* holds the tools that an earlier session of an id left behind
\* (disconnect_all drains the registry and leaves the cache).
InitCmd ==
    /\ connections = EmptyMap
    /\ \E c \in {EmptyMap} \cup {MapInsert(EmptyMap, i, ConvertTools(reply)) :
                                   i \in Ids, reply \in ServerReplies} : tools_cache = c
    /\ events = EmptyBag
    /\ task = [t \in Callers |-> Idle]
    /\ sid = [s \in Sessions |-> 0]
    /\ skind = [s \in Sessions |-> "-"]
    /\ worker = [s \in Sessions |-> "none"]
    /\ notified = [s \in Sessions |-> FALSE]
    /\ hbCancel = [s \in Sessions |-> FALSE]
    /\ hb = [s \in Sessions |-> NoHb]
    /\ td = [o \in Owners |-> NoTd]
    /\ calls = 0
    /\ sse = NoWorker
    /\ config_repo = NoRepo
    /\ ticker = NoTickers
    /\ http = NoServer
    /\ cmd = NoCommands
    /\ locks = NoLocks

CmdFrame ==
    UNCHANGED <<connections, tools_cache, events, task, sid, skind, worker,
                notified, hbCancel, hb, td, calls, sse, config_repo, ticker, http, locks>>

NoCommand(t) == cmd.run[t].pc = "none" /\ task[t].pc = "idle"
Called(t, pc, op) ==
    /\ cmd.run[t].pc = pc
    /\ task[t].op = op
    /\ task[t].pc = "returned"

\* ConnectMcpServerCmd: server_repo.find_by_id(&cmd.id) finds the server or
\* the handler returns NotFound.
CmdConnectBegin(t, i, found) ==
    /\ NoCommand(t)
    /\ cmd' = [cmd EXCEPT !.run[t] =
                  IF found
                  THEN [NoCmd EXCEPT !.pc = "connect", !.kind = "connect", !.id = i]
                  ELSE [NoCmd EXCEPT !.pc = "done", !.kind = "connect", !.id = i,
                                     !.result = "NotFound"]]
    /\ CmdFrame

\* client_manager.connect(&server.id, &server.url, &server_type_str).
CmdConnectCall(t, st) ==
    /\ cmd.run[t].pc = "connect"
    /\ task[t].pc = "idle"
    /\ ConnectCheck(t, cmd.run[t].id, st)

\* connect returned Err: the `?` returns it.
CmdConnectFailed(t) ==
    /\ Called(t, "connect", "connect")
    /\ task[t].ret.kind = "err"
    /\ cmd' = [cmd EXCEPT !.run[t].pc = "done", !.run[t].result = "Err"]
    /\ CmdFrame

\* connect returned Ok: client_manager.list_tools(&cmd.id).
CmdAutoRefresh(t) ==
    /\ Called(t, "connect", "connect")
    /\ task[t].ret.kind = "ok"
    /\ ListGet(t, cmd.run[t].id)

\* list_tools returned, Ok or Err alike: the second find_by_id gives the
\* handler's result.
CmdConnectEnd(t, found) ==
    /\ Called(t, "connect", "list_tools")
    /\ cmd' = [cmd EXCEPT !.run[t].pc = "done",
                          !.run[t].result = IF found THEN "Ok" ELSE "NotFound",
                          !.run[t].refresh = task[t].ret.kind]
    /\ CmdFrame

\* CallMcpToolCmd: the handler is called.
CmdCallBegin(t, i) ==
    /\ NoCommand(t)
    /\ cmd' = [cmd EXCEPT !.run[t] = [NoCmd EXCEPT !.pc = "call", !.kind = "call_tool", !.id = i]]
    /\ CmdFrame

\* client_manager.call_tool(&cmd.server_id, &cmd.tool_name, params).
CmdCallTool(t) ==
    /\ cmd.run[t].pc = "call"
    /\ task[t].pc = "idle"
    /\ CallGet(t, cmd.run[t].id)

\* The McpCallHistory built by the match on &result: Ok(r) is "success" with
\* the raw response, Err(e) is "error" with e's text.
HistoryOf(t, ret) ==
    IF ret.kind = "ok"
    THEN [by |-> t, status |-> "success", output_result |-> TRUE, error_message |-> <<>>]
    ELSE [by |-> t, status |-> "error", output_result |-> FALSE, error_message |-> <<ret.err>>]

\* call_tool returned: the entry is built, history_repo.create(history) is
\* awaited and its result dropped (`let _ =`), and the result is returned.
CmdCallEnd(t, created) ==
    /\ Called(t, "call", "call_tool")
    /\ cmd' = [cmd EXCEPT !.run[t].pc = "done",
                          !.run[t].result = IF task[t].ret.kind = "ok" THEN "Ok" ELSE "Err",
                          !.run[t].success = task[t].ret.kind = "ok" /\ task[t].ret.success,
                          !.history = IF created THEN Append(@, HistoryOf(t, task[t].ret)) ELSE @]
    /\ CmdFrame

NextCmd ==
    \/ \E t \in Callers, i \in Ids, found \in BOOLEAN : CmdConnectBegin(t, i, found)
    \/ \E t \in Callers, st \in McpServerTypes : CmdConnectCall(t, st)
    \/ \E t \in Callers : CmdConnectFailed(t)
    \/ \E t \in Callers : CmdAutoRefresh(t)
    \/ \E t \in Callers, found \in BOOLEAN : CmdConnectEnd(t, found)
    \/ \E t \in Callers, i \in Ids : CmdCallBegin(t, i)
    \/ \E t \in Callers : CmdCallTool(t)
    \/ \E t \in Callers, created \in BOOLEAN : CmdCallEnd(t, created)
    \/ \E t \in Callers : ConnectServeOk(t)
    \/ \E t \in Callers : ConnectServeErr(t)
    \/ \E t \in Callers : ConnectInsert(t)
    \/ \E t \in Callers, reply \in ServerReplies : ListReplyOk(t, reply)
    \/ \E t \in Callers : ListReplyErr(t)
    \/ \E t \in Callers : ListPostFail(t)
    \/ \E t \in Callers, outcome \in CallOutcomes : CallReply(t, outcome)
    \/ \E t \in Callers, outcome \in CallOutcomes : CallPostFail(t, outcome)
    \/ \E s \in Sessions : HbCancelled(s)
    \/ \E s \in Sessions : HbTick(s)
    \/ \E s \in Sessions : HbReplyOk(s)
    \/ \E s \in Sessions, e \in RpcErrors : HbReplyErr(s, e)
    \/ \E o \in Owners : HtdRemove(o)
    \/ \E o \in Owners : HtdFinish(o)

SpecCmd == InitCmd /\ [][NextCmd]_vars

\* ======================================================================
\* The heartbeats to their end: the manager under fair scheduling
\* ======================================================================
\* connect, disconnect, the heartbeats and the teardown runs.  The runtime
\* runs every task that can take a step (weak fairness); select! picks among
\* its ready branches at random, so a heartbeat whose token is cancelled and
\* that comes back to its select! again and again does take the cancelled
\* branch, and the RwLock is fair, so a task that waits for the write lock
\* gets it (strong fairness).  Servers answer every health check.
NextLive ==
    \/ \E t \in Callers, i \in Ids : ConnectCheck(t, i, "sse")
    \/ \E t \in Callers : ConnectServeOk(t)
    \/ \E t \in Callers : ConnectServeErr(t)
    \/ \E t \in Callers : ConnectInsert(t)
    \/ \E t \in Callers, i \in Ids : DisconnectRemove(t, i)
    \/ \E t \in Callers : DisconnectFinish(t)
    \/ \E s \in Sessions : HbCancelled(s)
    \/ \E s \in Sessions : HbTick(s)
    \/ \E s \in Sessions : HbReplyOk(s)
    \/ \E s \in Sessions, e \in RpcErrors : HbReplyErr(s, e)
    \/ \E o \in Owners : HtdRemove(o)
    \/ \E o \in Owners : HtdFinish(o)

FairLive ==
    /\ \A t \in Callers : WF_vars(ConnectServeOk(t) \/ ConnectServeErr(t) \/ DisconnectFinish(t))
    /\ \A t \in Callers : SF_vars(ConnectInsert(t))
    /\ \A s \in Sessions : SF_vars(HbCancelled(s))
    /\ \A s \in Sessions : WF_vars(HbTick(s))
    /\ \A s \in Sessions : WF_vars(HbReplyOk(s) \/ \E e \in RpcErrors : HbReplyErr(s, e))
    /\ \A o \in Owners : SF_vars(HtdRemove(o))
    /\ \A o \in Owners : WF_vars(HtdFinish(o))

SpecLive == Init /\ [][NextLive]_vars /\ FairLive

\* ======================================================================
\* Requests that wait for a server: the manager when replies may never come
\* ======================================================================
\* As above, but a server need not answer a tools/list request or a health
\* check: list_tools and ping_server await the reply with no time limit.
\* call_tool returns after CALL_TIMEOUT_SECS at the latest, and
\* client.cancel() returns.
NextStall ==
    \/ \E t \in Callers, i \in Ids : ConnectCheck(t, i, "sse")
    \/ \E t \in Callers : ConnectServeOk(t)
    \/ \E t \in Callers : ConnectInsert(t)
    \/ \E t \in Callers, i \in Ids : DisconnectRemove(t, i)
    \/ \E t \in Callers : DisconnectFinish(t)
    \/ \E t \in Callers, i \in Ids : IsConnected(t, i)
    \/ \E t \in Callers, i \in Ids : ListGet(t, i)
    \/ \E t \in Callers, reply \in ServerReplies : ListReplyOk(t, reply)
    \/ \E t \in Callers : ListReplyErr(t)
    \/ \E t \in Callers, i \in Ids : CallGet(t, i)
    \/ \E t \in Callers, outcome \in CallOutcomes : CallReply(t, outcome)
    \/ \E s \in Sessions : HbCancelled(s)
    \/ \E s \in Sessions : HbTick(s)
    \/ \E s \in Sessions : HbReplyOk(s)
    \/ \E s \in Sessions, e \in RpcErrors : HbReplyErr(s, e)
    \/ \E o \in Owners : HtdRemove(o)
    \/ \E o \in Owners : HtdFinish(o)

FairStall ==
    /\ \A t \in Callers : WF_vars(ConnectServeOk(t) \/ DisconnectFinish(t))
    /\ \A t \in Callers : WF_vars(\E outcome \in CallOutcomes : CallReply(t, outcome))
    /\ \A t \in Callers : SF_vars(ConnectInsert(t))
    /\ \A s \in Sessions : SF_vars(HbCancelled(s))
    /\ \A s \in Sessions : WF_vars(HbTick(s))
    /\ \A o \in Owners : SF_vars(HtdRemove(o))
    /\ \A o \in Owners : WF_vars(HtdFinish(o))

SpecStall == Init /\ [][NextStall]_vars /\ FairStall

\* ======================================================================
\* The SSE connect to its end: SseWorker::run under fair scheduling
\* ======================================================================
\* serve() returns Err once the worker has ended before the handshake was
\* complete, and connect returns it through map_err and `?`.
SseServeErr ==
    /\ sse.pc = "ended"
    /\ task[1].pc = "c_serve"
    /\ Returned(1, [kind |-> "err", err |-> "Failed to initialize MCP connection"])
    /\ UNCHANGED <<connections, tools_cache, events, sid, skind, worker, notified,
                   hbCancel, hb, td, calls, sse, config_repo, ticker, http, cmd, locks>>

NextSseLive ==
    \/ NextSse
    \/ SseServeErr

\* The tasks of the program take the steps they can take; what the server
\* sends, and when, is up to the server.
FairSse ==
    /\ WF_vars(SseServeErr)
    /\ WF_vars(SseServeOk)
    /\ SF_vars(ConnectInsert(1))
    /\ WF_vars(SseHandshakeCancelled)
    /\ WF_vars(SseCancelled)
    /\ WF_vars(SseTakeOutbound)

SpecSseLive == InitSse /\ [][NextSseLive]_vars /\ FairSse

\* ======================================================================
\* The event stream between the server and SseWorker::run
\* ======================================================================
\* response.bytes_stream().eventsource() is one stream: what the server has
\* sent and run has not yet taken with sse_stream.next() waits in it, in the
\* order it was sent (sse.inbound).  run takes from it only in its two
\* select! loops, so nothing is taken while the POST of phase 2 is awaited.
\* An error of the body and its end are items of the same stream and come
\* after the events sent before them.
StreamItems == SseEvents \cup {StreamErr, StreamNone}
StreamOpen ==
    /\ sse.pc \in {"awaiting", "streaming", "posting"}
    /\ IF sse.inbound = <<>> THEN TRUE ELSE sse.inbound[Len(sse.inbound)] \in SseEvents

\* The server sends x.
SseArrives(x) ==
    /\ StreamOpen
    /\ sse.seen + Len(sse.inbound) < MaxStreamEvents
    /\ SseGoesOn([sse EXCEPT !.inbound = Append(@, x)])

\* Phase 1, select!: sse_stream.next() gives the oldest item of the stream.
SseHandshakeNext ==
    /\ sse.pc = "awaiting"
    /\ sse.inbound # <<>>
    /\ LET x == Head(sse.inbound)
           left == [sse EXCEPT !.inbound = Tail(@), !.last = x]
           w == [left EXCEPT !.seen = @ + 1]
       IN CASE x = StreamErr ->
                 SseQuitNotified(left, "Fatal", "sse_stream_error_before_endpoint")
            [] x = StreamNone ->
                 SseQuitNotified(left, "Fatal", "sse_stream_closed_before_endpoint")
            [] OTHER ->
                 IF x.event = "endpoint"
                 THEN /\ sse' = [w EXCEPT !.pc = "streaming",
                                    !.post_url = <<FullUrl(BaseUrl(sse.url), x.data)>>]
                      /\ worker' = [worker EXCEPT ![SseSession] = "running"]
                      /\ UNCHANGED <<notified, td>>
                      /\ SseFrame
                 ELSE SseGoesOn(w)

\* What the match on event.event of phase 2 makes of the worker w that has
\* taken event x.
OnStreamEvent(w, x) ==
    CASE x.event = "endpoint" -> [w EXCEPT !.post_url = <<Trim(x.data)>>]
      [] x.event = "message" /\ x.data \in ValidJsonRpc ->
            [w EXCEPT !.delivered = Append(@, x.data)]
      [] x.event = "message" /\ x.data \notin ValidJsonRpc ->
            [w EXCEPT !.parse_errors = @ + 1]
      [] OTHER -> w

\* Variant: the newest item of the stream is taken first.
SseStreamNextNewestFirst ==
    /\ sse.pc = "streaming"
    /\ sse.inbound # <<>>
    /\ LET n == Len(sse.inbound)
           x == sse.inbound[n]
           left == [sse EXCEPT !.inbound = SubSeq(@, 1, n - 1), !.last = x]
       IN CASE x = StreamErr -> SseQuitNotified(left, "Fatal", "sse_stream_error")
            [] x = StreamNone ->
                 SseQuitNotified(left, "TransportClosed", "sse_stream_closed")
            [] OTHER -> SseGoesOn(OnStreamEvent([left EXCEPT !.seen = @ + 1], x))

\* Phase 2, select!: sse_stream.next() gives the oldest item of the stream.
SseStreamNext ==
    /\ sse.pc = "streaming"
    /\ sse.inbound # <<>>
    /\ LET x == Head(sse.inbound)
           left == [sse EXCEPT !.inbound = Tail(@), !.last = x]
       IN CASE x = StreamErr -> SseQuitNotified(left, "Fatal", "sse_stream_error")
            [] x = StreamNone ->
                 SseQuitNotified(left, "TransportClosed", "sse_stream_closed")
            [] OTHER -> SseGoesOn(OnStreamEvent([left EXCEPT !.seen = @ + 1], x))

NextSseStream ==
    \/ SseGetFails
    \/ SseGetStatusError
    \/ SseGetOk
    \/ \E x \in StreamItems : SseArrives(x)
    \/ SseHandshakeNext
    \/ SseHandshakeCancelled
    \/ SseTakeOutbound
    \/ SsePostOk
    \/ SsePostFails
    \/ SseStreamNext
    \/ SseCancelled
    \/ SseHandlerGone
    \/ SseCancel
    \/ \E m \in Outbound : SseHandlerSends(m)

SpecSseStream == InitSse /\ [][NextSseStream]_vars

\* ======================================================================
\* The two locks: connections and tools_cache, as each path takes them
\* ======================================================================
NumLockTasks == 3
LockTasks == 1..NumLockTasks
LockNames == {"connections", "tools_cache"}

Acq(l, m) == [op |-> "acquire", lock |-> l, mode |-> m]
Rel(l) == [op |-> "release", lock |-> l, mode |-> "-"]
Await == [op |-> "await", lock |-> "-", mode |-> "-"]

\* Variant: list_tools takes the cache lock before it looks the connection up.
PathListToolsCacheFirst ==
    <<Acq("tools_cache", "write"), Acq("connections", "read"), Await,
      Rel("connections"), Rel("tools_cache")>>

\* list_tools: connections.read() is held to the end of the function, across
\* the request and across tools_cache.write() in its inner block.
PathListTools ==
    <<Acq("connections", "read"), Await, Acq("tools_cache", "write"),
      Rel("tools_cache"), Rel("connections")>>

\* What each path of the manager does with the locks, in program order: a
\* guard is released where it goes out of scope.
LockPaths ==
    [connect |-> <<Acq("connections", "read"), Rel("connections"), Await,
                   Acq("connections", "write"), Rel("connections")>>,
     disconnect |-> <<Acq("connections", "write"), Await, Acq("tools_cache", "write"),
                      Rel("tools_cache"), Rel("connections")>>,
     is_connected |-> <<Acq("connections", "read"), Rel("connections")>>,
     list_tools |-> PathListTools,
     get_cached_tools |-> <<Acq("tools_cache", "read"), Rel("tools_cache")>>,
     call_tool |-> <<Acq("connections", "read"), Await, Rel("connections")>>,
     disconnect_all |-> <<Acq("connections", "write"), Await, Rel("connections")>>,
     handle_transport_disconnect |->
         <<Acq("connections", "write"), Rel("connections"), Await,
           Acq("tools_cache", "write"), Rel("tools_cache")>>,
     run_heartbeat |->
         <<Acq("connections", "read"), Await, Rel("connections"),
           Acq("connections", "write"), Rel("connections"), Await,
           Acq("tools_cache", "write"), Rel("tools_cache")>>]

\* Each task runs one of the paths from its start.
InitLocks ==
    /\ InitManager
    /\ sse = NoWorker
    /\ config_repo = NoRepo
    /\ ticker = NoTickers
    /\ http = NoServer
    /\ cmd = NoCommands
    /\ \E p \in [LockTasks -> DOMAIN LockPaths] :
          locks = [pc |-> "run", path |-> p,
                   at |-> [t \in LockTasks |-> 1],
                   waits |-> [t \in LockTasks |-> FALSE],
                   held |-> [l \in LockNames |-> {}],
                   queue |-> [l \in LockNames |-> <<>>]]

LocksFrame ==
    UNCHANGED <<connections, tools_cache, events, task, sid, skind, worker,
                notified, hbCancel, hb, td, calls, sse, config_repo, ticker, http, cmd>>

PathOf(t) == LockPaths[locks.path[t]]
LockDone(t) == locks.at[t] > Len(PathOf(t))
OpOf(t) == PathOf(t)[locks.at[t]]
HeldBy(t) == {l \in LockNames : \E h \in locks.held[l] : h[1] = t}

\* tokio's RwLock: any number of readers or one writer, and the waiters are
\* served in the order in which they asked.
Grantable(l, m) ==
    IF m = "read" THEN \A h \in locks.held[l] : h[2] = "read"
    ELSE locks.held[l] = {}

\* read() / write() is called: the task joins the queue of the lock.
LockRequest(t) ==
    /\ ~LockDone(t)
    /\ OpOf(t).op = "acquire"
    /\ ~locks.waits[t]
    /\ locks' = [locks EXCEPT !.waits[t] = TRUE,
                              !.queue[OpOf(t).lock] = Append(@, <<t, OpOf(t).mode>>)]
    /\ LocksFrame

\* The first waiter of lock l gets it.
LockGrant(l) ==
    /\ locks.queue[l] # <<>>
    /\ LET w == Head(locks.queue[l])
       IN /\ Grantable(l, w[2])
          /\ locks' = [locks EXCEPT !.queue[l] = Tail(@),
                                    !.held[l] = @ \cup {w},
                                    !.waits[w[1]] = FALSE,
                                    !.at[w[1]] = @ + 1]
    /\ LocksFrame

\* A guard goes out of scope.
LockRelease(t) ==
    /\ ~LockDone(t)
    /\ OpOf(t).op = "release"
    /\ locks' = [locks EXCEPT !.held[OpOf(t).lock] = {h \in @ : h[1] # t},
                              !.at[t] = @ + 1]
    /\ LocksFrame

\* An await on something other than a lock completes.
LockAwait(t) ==
    /\ ~LockDone(t)
    /\ OpOf(t).op = "await"
    /\ locks' = [locks EXCEPT !.at[t] = @ + 1]
    /\ LocksFrame

NextLocks ==
    \/ \E t \in LockTasks : LockRequest(t)
    \/ \E l \in LockNames : LockGrant(l)
    \/ \E t \in LockTasks : LockRelease(t)
    \/ \E t \in LockTasks : LockAwait(t)

SpecLocks == InitLocks /\ [][NextLocks]_vars

\* ======================================================================
\* Statements checked against the model
\* ======================================================================

\* The step is the start of a request by caller t.
Starts(t) ==
    /\ calls' = calls + 1
    /\ \A u \in Callers \ {t} : task'[u] = task[u]
    /\ task'[t] = task[t] => CanStart(t)

\* The step is one of caller t's request: its start or a later step of it.
Steps(t) == Starts(t) \/ (task'[t] # task[t] /\ ~Free(t))

Published(s) == {k \in {"hb", "cb"} : td[<<s, k>>].pc = "done"}

\* C1: for a server id that was connected by one session only, the teardown
\* triggers of that session (its heartbeat's failed health check, its SSE
\* worker's disconnect callback) publish one notification between them, not
\* one each.
C1_OneNotificationPerTransition ==
    \A s \in Sessions :
        (\A x \in Sessions \ {s} : sid[x] # sid[s]) => Cardinality(Published(s)) <= 1

C3_AbsentTeardownIsSilent ==
    [][/\ \A o \in Owners :
            (/\ td[o].pc = "remove"
             /\ td'[o].pc # "remove"
             /\ hb[o[1]].pc # "none"
             /\ sid[o[1]] \notin DOMAIN connections)
                => events' = events /\ connections' = connections
       /\ \A t \in Callers :
            (/\ Starts(t)
             /\ task'[t].op = "disconnect"
             /\ task'[t].id \notin DOMAIN connections)
                => events' = events /\ connections' = connections]_vars

\* C4: when disconnect(id) returns, id is in neither the registry nor the
\* tool cache, and from then on no step other than a connect(id) in progress
\* brings either entry back; is_connected answers from the registry.
Gone(i) == i \notin DOMAIN connections /\ i \notin DOMAIN tools_cache
Connecting(i) ==
    \E t \in Callers :
        task[t].op = "connect" /\ task[t].id = i /\ task[t].pc \in {"c_serve", "c_insert"}
C4_GoneAfterDisconnect ==
    [][/\ \A t \in Callers :
            (task'[t].op = "disconnect" /\ task'[t].pc = "returned"
                /\ Steps(t))
                => \A i \in Ids : task'[t].id = i => Gone(i)'
       /\ \A i \in Ids : (Gone(i) /\ ~Connecting(i)) => Gone(i)'
       /\ \A t \in Callers :
            (Starts(t) /\ task'[t].op = "is_connected")
                => task'[t].ret.value = (task'[t].id \in DOMAIN connections)]_vars

C4_Witness ==
    \E t \in Callers :
        /\ task[t].pc = "returned"
        /\ task[t].op = "disconnect"
        /\ task[t].ret.found
        /\ Gone(task[t].id)
        /\ \E s \in Sessions :
              sid[s] = task[t].id /\ hbCancel[s] /\ td[<<s, "hb">>].pc = "done"
        /\ \E u \in Callers :
              /\ task[u].op = "list_tools"
              /\ task[u].id = task[t].id
              /\ task[u].pc = "returned"
              /\ task[u].ret.kind = "err"

\* C5: a connect(id) made while id is registered returns "Already connected"
\* at once and changes nothing: no session is built, and the registered
\* session, its transport and its heartbeat stay as they were.
C5_SecondConnectRejected ==
    [][\A t \in Callers :
          (Starts(t) /\ task'[t].op = "connect" /\ task'[t].id \in DOMAIN connections)
              => /\ task'[t].pc = "returned"
                 /\ task'[t].ret = [kind |-> "err", err |-> "Already connected"]
                 /\ UNCHANGED <<connections, tools_cache, events, sid, skind, worker,
                                notified, hbCancel, hb, td>>]_vars

C5_Witness ==
    \E t \in Callers :
        /\ task[t].pc = "returned"
        /\ task[t].op = "connect"
        /\ task[t].ret = [kind |-> "err", err |-> "Already connected"]
        /\ task[t].id \in DOMAIN connections
        /\ hb[connections[task[t].id]].pc = "wait"

\* C6: at most one session per id has a heartbeat task that is running with
\* its token not cancelled.
LiveHeartbeats(i) ==
    {s \in Sessions : sid[s] = i /\ hb[s].pc \in {"wait", "call", "teardown"} /\ ~hbCancel[s]}
C6_AtMostOneLiveSession ==
    \A i \in Ids : Cardinality(LiveHeartbeats(i)) <= 1

\* C7 as stated: "streaming_http" selects the streaming transport, "sse" the
\* SSE transport, and no other tag gets a transport built.
C7_StreamingHttpTag ==
    \A t \in Callers :
        task[t].op = "connect" =>
            /\ task[t].pc \in {"c_serve", "c_insert"} =>
                  \/ task[t].ret.tag = "streaming_http" /\ skind[task[t].sess] = "http"
                  \/ task[t].ret.tag = "sse" /\ skind[task[t].sess] = "sse"
            /\ (task[t].pc = "returned" /\ task[t].ret.kind = "err") =>
                  task[t].ret.err \notin
                      {"Unsupported server type: streaming_http", "Unsupported server type: sse"}

\* C7 amended: "streamable_http" selects the streaming transport, "sse" the
\* SSE transport (both case-sensitive); every other tag makes connect return
\* the unsupported-type error, and that return inserts no session and starts
\* no heartbeat.
Unsupported(tag) == "Unsupported server type: " \o tag
OtherTags == ServerTypes \ {"streamable_http", "sse"}
C7_Dispatch ==
    [][\A t \in Callers :
          task'[t].op = "connect" =>
              /\ task'[t].pc \in {"c_serve", "c_insert"} =>
                    \/ task'[t].ret.tag = "streamable_http" /\ skind'[task'[t].sess] = "http"
                    \/ task'[t].ret.tag = "sse" /\ skind'[task'[t].sess] = "sse"
              /\ (task'[t].pc = "returned" /\ task'[t].ret.kind = "err") =>
                    task'[t].ret.err \notin {Unsupported("streamable_http"), Unsupported("sse")}
              /\ (Starts(t) /\ task'[t].pc = "returned"
                    /\ task'[t].ret.err \in {Unsupported(g) : g \in OtherTags}) =>
                    UNCHANGED <<connections, sid, worker, hb>>]_vars

C7_Witness ==
    /\ \E t \in Callers :
          /\ task[t].op = "connect"
          /\ task[t].pc = "c_serve"
          /\ task[t].ret.tag = "streamable_http"
          /\ skind[task[t].sess] = "http"
    /\ \E t \in Callers :
          /\ task[t].op = "connect"
          /\ task[t].pc = "returned"
          /\ task[t].ret.kind = "err"
          /\ task[t].ret.err = Unsupported("streaming_http")

\* C8: a list_tools that succeeds sets the cache entry of its id to exactly
\* the converted reply it returns, whatever the entry held before, and
\* touches no other entry; a list_tools that fails leaves the cache as it was.
C8_ListReplacesCacheEntry ==
    [][\A t \in Callers :
          (task'[t].op = "list_tools" /\ task'[t].pc = "returned"
              /\ Steps(t))
              => IF task'[t].ret.kind = "ok"
                 THEN /\ task'[t].ret.tools = ConvertTools(task'[t].ret.raw_response)
                      /\ DOMAIN tools_cache' = DOMAIN tools_cache \cup {task'[t].id}
                      /\ \A j \in DOMAIN tools_cache' :
                            tools_cache'[j] = IF j = task'[t].id THEN task'[t].ret.tools
                                              ELSE tools_cache[j]
                 ELSE tools_cache' = tools_cache]_vars

C8_Witness ==
    \E t \in Callers :
        /\ task[t].pc = "returned"
        /\ task[t].op = "list_tools"
        /\ task[t].ret.kind = "ok"
        /\ task[t].ret.replaced
        /\ tools_cache[task[t].id] = task[t].ret.tools

\* C9: a call_tool whose request is never answered returns a value (not an
\* error) with success = false, the timeout message, no result and a
\* duration of at least the timeout; every call_tool that reached the
\* transport returns a value whose duration is the time that passed.
C9_TimeoutResult ==
    \A t \in Callers :
        (task[t].pc = "returned" /\ task[t].op = "call_tool"
            /\ task[t].ret.outcome.kind # "unsent")
            => LET r == task[t].ret
               IN /\ r.kind = "ok"
                  /\ r.outcome.kind = "never" =>
                        /\ r.success = FALSE
                        /\ r.error = <<"Request timed out after 30 seconds">>
                        /\ r.result = <<>>
                        /\ r.duration_ms >= CALL_TIMEOUT_SECS * 1000
                  /\ r.outcome.kind # "never" =>
                        r.duration_ms = (r.outcome.at + r.outcome.lag) * 1000

C9_Witness ==
    \E t \in Callers :
        /\ task[t].pc = "returned"
        /\ task[t].op = "call_tool"
        /\ task[t].ret.outcome.kind = "never"
        /\ task[t].ret.duration_ms > CALL_TIMEOUT_SECS * 1000

\* C10: no step of a call_tool call changes the registry, the tool cache,
\* a heartbeat or its token, or the published events; when a call that
\* reached the transport returns, its session is still the registered one.
C10_CallToolFrame ==
    [][\A t \in Callers :
          (task'[t].op = "call_tool" /\ Steps(t))
              => /\ UNCHANGED <<connections, tools_cache, events, hbCancel, hb>>
                 /\ task[t].pc = "k_call" =>
                        /\ task[t].id \in DOMAIN connections'
                        /\ connections'[task[t].id] = task[t].sess]_vars

C10_Witness ==
    \E t \in Callers :
        /\ task[t].pc = "returned"
        /\ task[t].op = "call_tool"
        /\ task[t].ret.outcome.kind = "never"
        /\ task[t].id \in DOMAIN connections
        /\ connections[task[t].id] = task[t].sess
        /\ ~hbCancel[task[t].sess]
        /\ hb[task[t].sess].pc = "wait"
        /\ events = EmptyBag

\* C11 as stated: once a disconnect_all that found the manager quiet has
\* returned, and no request has been made since, no event has been published
\* since it began.
C11_DisconnectAllPublishesNothing ==
    \A t \in Callers :
        (/\ task[t].op = "disconnect_all"
         /\ task[t].pc = "returned"
         /\ task[t].ret.quiet
         /\ calls = task[t].ret.nth)
            => BagCardinality(events) = task[t].ret.base

\* C12: the worker leaves phase 1 for phase 2 only by taking an endpoint
\* event from the stream; an event of another type taken in phase 1 changes
\* nothing; and as long as the worker has not left phase 1 nothing was
\* POSTed, answered or delivered, and the handler's messages stay queued.
C12_AwaitingEndpoint ==
    [][/\ (sse.pc = "awaiting" /\ sse'.pc = "streaming")
            => sse'.seen = sse.seen + 1 /\ sse'.last.event = "endpoint"
       /\ (sse.pc = "awaiting" /\ sse'.seen = sse.seen + 1 /\ sse'.last.event # "endpoint")
            => sse' = [sse EXCEPT !.seen = sse'.seen, !.last = sse'.last]
       /\ sse.pc \in {"get", "awaiting"}
            => /\ sse'.pc # "posting"
               /\ sse'.posts = <<>> /\ sse'.replies = <<>> /\ sse'.delivered = <<>>
               /\ Len(sse'.outbox) >= Len(sse.outbox)
               /\ SubSeq(sse'.outbox, 1, Len(sse.outbox)) = sse.outbox]_vars

C12_Witness ==
    /\ sse.pc = "awaiting"
    /\ sse.last.event = "message"
    /\ sse.last.data \in ValidJsonRpc
    /\ sse.outbox # <<>>

\* C13: the POST URL recorded when the handshake's endpoint event arrives is
\* the event's (trimmed) data when that begins with http:// or https://, and
\* otherwise scheme://host[:port] of the GET URL followed by the data.
C13_EndpointResolution ==
    [][(sse.pc = "awaiting" /\ sse'.pc = "streaming")
          => LET data == Trim(sse'.last.data)
                 u == sse.url
             IN /\ sse'.post_url =
                      IF StartsWith(data, "http://") \/ StartsWith(data, "https://")
                      THEN <<data>>
                      ELSE <<u.scheme \o "://" \o u.host \o u.port \o data>>
                /\ (UrlString(u) = "http://h:9000/bar" /\ data = "/foo/123")
                      => sse'.post_url = <<"http://h:9000/foo/123">>
                /\ data = "https://other.example/post"
                      => sse'.post_url = <<"https://other.example/post">>]_vars

C13_Witness ==
    /\ sse.pc = "streaming"
    /\ sse.seen = 1
    /\ UrlString(sse.url) = "http://h:9000/bar"
    /\ sse.last = [event |-> "endpoint", data |-> "/foo/123"]
    /\ sse.post_url = <<"http://h:9000/foo/123">>

\* C14: a worker whose stream ended (None) before any endpoint event has
\* returned Fatal after notifying "sse_stream_closed_before_endpoint"; the
\* events published are at most the one event with that reason, and exactly
\* that one once the callback's teardown run has finished.
ClosedBeforeEndpoint == sse.pc = "ended" /\ sse.last = StreamNone /\ sse.post_url = <<>>
C14_ClosedBeforeEndpoint ==
    ClosedBeforeEndpoint
        => /\ sse.quit = "Fatal"
           /\ sse.reason = "sse_stream_closed_before_endpoint"
           /\ notified[SseSession]
           /\ td[<<SseSession, "cb">>].pc \in {"remove", "done"}
           /\ td[<<SseSession, "cb">>].pc = "remove" => events = EmptyBag
           /\ td[<<SseSession, "cb">>].pc = "done"
                 => events = SetToBag({Event(SseId, "sse_stream_closed_before_endpoint")})

C14_Witness ==
    /\ ClosedBeforeEndpoint
    /\ sse.seen >= 1
    /\ td[<<SseSession, "cb">>].pc = "done"
    /\ BagCardinality(events) = 1

\* C15: in phase 2 a message event whose data is not a JSON-RPC message is
\* passed over: nothing is delivered, the worker stays in phase 2 and nothing
\* is notified; a message event that is one is appended to what the handler
\* was given.
C15_MalformedMessageDropped ==
    [][(sse.pc = "streaming" /\ sse'.seen = sse.seen + 1 /\ sse'.last.event = "message")
          => IF sse'.last.data \in ValidJsonRpc
             THEN sse'.delivered = Append(sse.delivered, sse'.last.data)
             ELSE /\ sse'.delivered = sse.delivered
                  /\ sse'.pc = "streaming"
                  /\ sse'.quit = "-"
                  /\ UNCHANGED <<notified, td, events, worker>>]_vars

C15_Witness ==
    /\ sse.pc = "streaming"
    /\ sse.parse_errors >= 1
    /\ sse.last.event = "message"
    /\ sse.last.data \in ValidJsonRpc
    /\ sse.delivered = <<sse.last.data>>

\* C16: with MAX_FAILURES = 1 a failed health check of a registered session
\* never leads back to the ticker: the heartbeat starts the teardown with
\* reason "heartbeat_failed" and stays in it; a teardown that finds the
\* session registered removes the registry entry, and on its last step the
\* transport is shut down, the cache entry is removed, the event
\* "heartbeat_failed" is published and the heartbeat has left its loop.
HbRun(s) == td[<<s, "hb">>]
C16_SingleFailureTearsDown ==
    [][\A s \in Sessions :
          /\ (hb[s].pc = "call" /\ hb'[s].pc # "call" /\ hb'[s].fails >= 1)
                => /\ hb'[s].pc = "teardown"
                   /\ td'[<<s, "hb">>] =
                         [pc |-> "remove", reason |-> "heartbeat_failed", conn |-> 0]
          /\ hb[s].pc = "teardown" => hb'[s].pc \in {"teardown", "done"}
          /\ (/\ HbRun(s).pc = "remove" /\ td'[<<s, "hb">>].pc # "remove"
              /\ sid[s] \in DOMAIN connections /\ connections[sid[s]] = s)
                => /\ sid[s] \notin DOMAIN connections'
                   /\ hbCancel'[s]
                   /\ td'[<<s, "hb">>].pc = "cancel"
                   /\ td'[<<s, "hb">>].conn = s
          /\ (HbRun(s).pc = "cancel" /\ td'[<<s, "hb">>].pc # "cancel" /\ HbRun(s).conn = s)
                => /\ worker'[s] = "closed"
                   /\ sid[s] \notin DOMAIN tools_cache'
                   /\ events' = events (+) SetToBag({Event(sid[s], "heartbeat_failed")})
                   /\ hb'[s].pc = "done"]_vars

\* A heartbeat that failed once has removed its own registered session,
\* which had a cache entry, and is shutting the transport down.
C16_Witness ==
    \E s \in Sessions :
        /\ hb[s].pc = "teardown"
        /\ hb[s].fails = 1
        /\ HbRun(s).pc = "cancel"
        /\ HbRun(s).conn = s
        /\ sid[s] \in DOMAIN tools_cache
        /\ sid[s] \notin DOMAIN connections

\* C17: once a disconnect(id) has removed a session and cancelled its
\* heartbeat token, the heartbeat, found between two ticks, only leaves its
\* loop: it starts no teardown run and nothing is published for it.
CancelledByDisconnect(s) ==
    /\ hbCancel[s]
    /\ \E t \in Callers :
          /\ task[t].op = "disconnect"
          /\ task[t].sess = s
          /\ task[t].pc \in {"d_cancel", "returned"}
C17_CancelledHeartbeatJustExits ==
    [][\A s \in Sessions :
          (CancelledByDisconnect(s) /\ hb[s].pc = "wait")
              => /\ hb'[s].pc \in {"wait", "done"}
                 /\ td'[<<s, "hb">>] = td[<<s, "hb">>]]_vars

\* C18: a step of an operation, a heartbeat, a teardown run or a worker
\* concerns one server id (disconnect_all, which names none, apart), and
\* for every other id the registry entry, the cache entry and the
\* heartbeats of its sessions are the same after the step; a connect that
\* is past its handshake registers its own session and returns Ok whatever
\* the other caller is doing.
Touched ==
    {task'[t].id : t \in {u \in Callers : task'[u] # task[u]}}
        \cup {sid'[s] : s \in {x \in Sessions : hb'[x] # hb[x] \/ worker'[x] # worker[x]}}
        \cup {sid'[o[1]] : o \in {x \in Owners : td'[x] # td[x]}}
ByDisconnectAll == \E t \in Callers : task'[t] # task[t] /\ task'[t].op = "disconnect_all"
RegistryOf(i) == IF i \in DOMAIN connections THEN <<connections[i]>> ELSE <<>>
CacheOf(i) == IF i \in DOMAIN tools_cache THEN <<tools_cache[i]>> ELSE <<>>
HeartbeatsOf(i) == [s \in {x \in Sessions : sid[x] = i} |-> <<hb[s], hbCancel[s]>>]
C18_SessionsIsolated ==
    [][/\ ~ByDisconnectAll
          => /\ Cardinality(Touched) <= 1
             /\ \A B \in Ids \ Touched :
                   /\ RegistryOf(B)' = RegistryOf(B)
                   /\ CacheOf(B)' = CacheOf(B)
                   /\ HeartbeatsOf(B)' = HeartbeatsOf(B)
       /\ \A t \in Callers :
             (task[t].pc = "c_insert" /\ task'[t] # task[t])
                 => /\ task'[t].pc = "returned"
                    /\ task'[t].ret.kind = "ok"
                    /\ RegistryOf(task[t].id)' = <<task[t].sess>>]_vars

\* Two connects for distinct ids overlap: the one that started second has
\* registered its session and returned Ok while the one that started first
\* is past its handshake, and the first id has a session of its own.
C18_Witness ==
    \E t \in Callers, u \in Callers :
        /\ task[t].op = "connect" /\ task[u].op = "connect"
        /\ task[t].id # task[u].id
        /\ task[u].pc = "c_insert" /\ task[u].sess = 1
        /\ task[t].pc = "returned" /\ task[t].ret.kind = "ok"
        /\ RegistryOf(task[t].id) = <<2>>
        /\ hb[2].pc = "wait"

\* C19: no task is suspended on the transport (the await of
\* conn.client.cancel() in disconnect and in disconnect_all's loop) while
\* it holds the write lock of the registry.
AwaitingTransport ==
    {t \in Callers : \/ task[t].pc \in {"d_cancel", "l_call", "k_call"}
                     \/ task[t].pc = "a_drain" /\ task[t].ret.todo # {}}
C19_NoTransportWaitUnderWriteLock == AwaitingTransport \cap WriteHolders = {}

\* C20: every published event is a record of the session's id (the key
\* "server_id"), status, error and reason, with status "disconnected",
\* error "Transport closed: " followed by the reason, and the reason one of
\* the seven the heartbeat and the SSE worker give.
C20_EventFields ==
    \A e \in BagToSet(events) :
        /\ DOMAIN e = {"server_id", "status", "error", "reason"}
        /\ e.server_id \in Ids
        /\ e.status = "disconnected"
        /\ e.error = "Transport closed: " \o e.reason
        /\ e.reason \in {"heartbeat_failed", "sse_stream_closed", "sse_stream_error",
                         "post_send_error", "sse_initial_response_error",
                         "sse_stream_closed_before_endpoint",
                         "sse_stream_error_before_endpoint"}

\* The heartbeat's event and the worker's event of one session have both
\* been published.
C20_Witness ==
    /\ Event(SseId, "heartbeat_failed") \in BagToSet(events)
    /\ \E r \in {"sse_stream_closed", "sse_stream_error", "post_send_error"} :
          Event(SseId, r) \in BagToSet(events)

\* C21: when no operation and no teardown run is under way, the tools cache
\* has an entry only for ids that are registered.
NothingUnderWay ==
    /\ \A t \in Callers : Free(t)
    /\ \A o \in Owners : td[o].pc \in {"none", "done"}
    /\ \A s \in Sessions : hb[s].pc \in {"none", "wait", "done"}
C21_CacheOnlyIfRegistered ==
    NothingUnderWay => DOMAIN tools_cache \subseteq DOMAIN connections

\* C22: a worker that has ended, from whichever state and for whichever
\* cause, has invoked its disconnect notification (once: the latch is set
\* and the callback's teardown run was started).
C22_EndedWorkerNotifiedOnce ==
    sse.pc = "ended"
        => /\ notified[SseSession]
           /\ td[<<SseSession, "cb">>].pc # "none"

\* C23: in phase 2, once the cancellation token is cancelled the worker
\* takes no further outbound message and no further event: its next step
\* ends the loop with Cancelled.
C23_CancellationWins ==
    [][(sse.cancelled /\ sse.pc = "streaming")
          => /\ sse'.seen = sse.seen
             /\ sse'.posts = sse.posts
             /\ sse'.delivered = sse.delivered
             /\ sse'.pc \in {"streaming", "ended"}
             /\ sse'.pc = "ended" => sse'.quit = "Cancelled"]_vars

\* C24: list_tools, call_tool and get_server_info for an id that is not
\* registered return Err("Not connected to server") at once, without a
\* request to any transport, and leave the registry, the cache and every
\* session as they are.
C24_NotConnected ==
    [][\A t \in Callers :
          (/\ Starts(t)
           /\ task'[t].op \in {"list_tools", "call_tool", "get_server_info"}
           /\ task'[t].id \notin DOMAIN connections)
              => /\ task'[t].pc = "returned"
                 /\ task'[t].ret.kind = "err"
                 /\ task'[t].ret.err = "Not connected to server"
                 /\ UNCHANGED <<connections, tools_cache, events, worker, hb, td,
                                hbCancel, notified>>]_vars

\* A get_server_info has been refused for an id that has a cache entry but
\* no registry entry any more.
C24_Witness ==
    \E t \in Callers :
        /\ task[t].pc = "returned"
        /\ task[t].op = "get_server_info"
        /\ task[t].ret.kind = "err"
        /\ task[t].id \notin DOMAIN connections
        /\ task[t].id \in DOMAIN tools_cache

\* C25: a POST that fails ends the worker with Fatal after the
\* notification "post_send_error", the sender of the message is given an
\* Err and the message is not POSTed again; a POST is only ever made of the
\* message taken from the head of the queue, so each message handed to the
\* worker is POSTed at most once and each POST is answered to its sender
\* once.
C25_PostFailureIsFatal ==
    [][/\ (sse.pc = "posting" /\ sse'.pc # "posting" /\ sse'.replies # sse.replies
             /\ sse'.replies[Len(sse'.replies)].result = "Err")
            => /\ sse'.pc = "ended"
               /\ sse'.quit = "Fatal"
               /\ sse'.reason = "post_send_error"
               /\ notified'[SseSession]
               /\ sse'.replies = Append(sse.replies, [message |-> sse.sending[1], result |-> "Err"])
               /\ sse'.posts = sse.posts
               /\ sse'.outbox = sse.outbox
       /\ (sse.pc = "posting" /\ sse'.pc # "posting")
            => Len(sse'.replies) = Len(sse.replies) + 1
       /\ sse'.posts # sse.posts
            => /\ sse.outbox # <<>>
               /\ sse'.outbox = Tail(sse.outbox)
               /\ sse'.posts = Append(sse.posts, [url |-> sse.post_url[1], body |-> Head(sse.outbox)])
       /\ sse.pc = "ended" => sse' = sse]_vars

\* The second POST of a worker failed: both messages were POSTed once, the
\* first sender was given Ok and the second Err.
C25_Witness ==
    /\ sse.pc = "ended"
    /\ sse.reason = "post_send_error"
    /\ Len(sse.posts) = 2
    /\ Len(sse.replies) = 2
    /\ sse.replies[1].result = "Ok"
    /\ sse.replies[2] = [message |-> sse.posts[2].body, result |-> "Err"]

\* C26: an endpoint event taken in phase 2 sets the POST URL to the full
\* URL of its data, resolved as in the handshake (a relative path against
\* scheme://host[:port] of the GET URL), and every POST goes to the POST URL
\* of the moment, which is a full http(s) URL.
C26_EndpointUpdateResolved ==
    [][/\ (sse.pc = "streaming" /\ sse'.seen = sse.seen + 1 /\ sse'.last.event = "endpoint")
            => sse'.post_url = <<FullUrl(BaseUrl(sse.url), sse'.last.data)>>
       /\ sse'.posts # sse.posts
            => LET post == sse'.posts[Len(sse'.posts)]
               IN /\ post.url = sse.post_url[1]
                  /\ StartsWith(post.url, "http://") \/ StartsWith(post.url, "https://")]_vars

\* C27: a health check that succeeds sets consecutive_failures to 0 and
\* the heartbeat waits for the next tick with no teardown; one that fails
\* adds one to it, and the heartbeat drives the teardown and leaves exactly
\* when the count has reached MAX_FAILURES or the error is a closed
\* transport, else it waits for the next tick; a teardown run of the
\* heartbeat only ever starts on such a failure.
HbFailures(s) ==
    {HbAfterFailure(s, e) : e \in RpcErrors \cup {"Not connected to server"}}
C27_FailureCounter ==
    [][\A s \in Sessions :
          /\ (hb[s].pc = "call" /\ hb'[s] # hb[s])
                => \/ /\ hb'[s] = [pc |-> "wait", fails |-> 0, conn |-> 0]
                      /\ td'[<<s, "hb">>] = td[<<s, "hb">>]
                   \/ /\ hb'[s] \in HbFailures(s)
                      /\ hb'[s].fails = hb[s].fails + 1
                      /\ hb'[s].pc = "teardown" <=> td'[<<s, "hb">>].pc = "remove"
                      /\ hb'[s].pc = "wait" => hb'[s].fails < MAX_FAILURES
          /\ (td[<<s, "hb">>].pc = "none" /\ td'[<<s, "hb">>].pc # "none")
                => /\ hb[s].pc \in {"wait", "call"}
                   /\ hb'[s].pc = "teardown"
                   /\ hb'[s].fails = hb[s].fails + 1
                   /\ hb'[s].fails >= MAX_FAILURES
                   /\ td'[<<s, "hb">>] =
                         [pc |-> "remove", reason |-> "heartbeat_failed", conn |-> 0]
          /\ hb[s].pc = "wait" => hb[s].fails = 0]_vars

\* The health check of a registered session has just failed: the count is
\* one and the teardown run of the heartbeat is about to take the lock.
C27_Witness ==
    \E s \in Sessions :
        /\ hb[s] = [pc |-> "teardown", fails |-> 1, conn |-> 0]
        /\ HbRun(s).pc = "remove"
        /\ RegistryOf(sid[s]) = <<s>>
        /\ worker[s] = "running"

\* C28: a connect that fails leaves no trace: neither its own steps nor the
\* teardown run that the callback of its worker started (the session never
\* had a heartbeat, so it was never inserted) change the registry, the
\* heartbeats or the tools cache.
C28_FailedConnectLeavesNoTrace ==
    [][/\ \A t \in Callers :
             (/\ Steps(t)
              /\ task'[t].op = "connect"
              /\ task'[t].pc = "returned"
              /\ task'[t].ret.kind = "err")
                 => UNCHANGED <<connections, tools_cache, hb, hbCancel>>
       /\ \A s \in Sessions :
             (/\ hb[s] = NoHb
              /\ td[<<s, "cb">>].pc # "none"
              /\ td'[<<s, "cb">>] # td[<<s, "cb">>])
                 => UNCHANGED <<connections, tools_cache, hb, hbCancel>>]_vars

\* C29: the heartbeat's interval is the configured number of seconds when
\* the repository is set and holds a value that parses as a non-negative
\* integer, and 10 when no repository is set, the read fails, the key is
\* missing or the value does not parse.
C29_ConfiguredOrDefault ==
    \A s \in Sessions :
        ticker[s].state # "none"
            => LET cfg == ticker[s].from
                   parsed == [v \in {"30", "0", "007", "+5"} |->
                                 CASE v = "30" -> 30 [] v = "0" -> 0
                                   [] v = "007" -> 7 [] v = "+5" -> 5]
               IN ticker[s].secs =
                     IF cfg \in ConfigRepos /\ cfg.get = "Ok(Some)" /\ cfg.value \in DOMAIN parsed
                     THEN parsed[cfg.value]
                     ELSE 10

\* One heartbeat took 30 from the configuration; the other, started when
\* the value did not parse, took the default.
C29_Witness ==
    \E s \in Sessions, r \in Sessions :
        /\ ticker[s].state = "ticking" /\ ticker[s].from.value = "30" /\ ticker[s].secs = 30
        /\ ticker[r].state = "ticking" /\ ticker[r].from.value = " 5" /\ ticker[r].secs = 10

\* C30: a request whose callback panicked gets the success response that
\* carries its received-message info, and the server goes on serving: the
\* step leaves the server running with the same callback.
C30_CallbackPanicContained ==
    [][(/\ Len(http'.log) = Len(http.log) + 1
        /\ http'.log[Len(http'.log)].callback \notin {"-", "none", "returned"})
           => /\ http'.log[Len(http'.log)].callback = "caught"
              /\ http'.log[Len(http'.log)].status = "200 OK"
              /\ http'.log[Len(http'.log)].success
              /\ Len(http'.log[Len(http'.log)].data) = 1
              /\ http'.state = "running"
              /\ http'.callback = http.callback]_vars

\* The callback panicked on the first request, which got its success
\* response, and the next request was served and its callback returned.
C30_Witness ==
    /\ Len(http.log) >= 2
    /\ http.log[1].callback = "caught"
    /\ http.log[1].success
    /\ http.log[1].data # <<>>
    /\ http.log[2].callback = "returned"
    /\ http.log[2].success

\* The worker ends in this step, with a call of notify_disconnect(reason)
\* that started the callback's teardown.
SseEndsFrom(pc) == sse.pc = pc /\ sse'.pc = "ended"
SseNotifies(quit, reason) ==
    /\ sse'.quit = quit
    /\ sse'.reason = reason
    /\ notified'[SseSession]
    /\ td'[<<SseSession, "cb">>] = [pc |-> "remove", reason |-> reason, conn |-> 0]

\* C31: in Streaming the stream's end ends the worker TransportClosed with
\* the notification "sse_stream_closed" and a stream error ends it Fatal
\* with "sse_stream_error"; before the endpoint a stream error ends it Fatal
\* with "sse_stream_error_before_endpoint", and a worker that ends on the
\* initial response with a notification ends Fatal with
\* "sse_initial_response_error".
C31_StreamEndReasons ==
    [][/\ (SseEndsFrom("streaming") /\ sse'.last = StreamNone /\ sse.last # StreamNone)
            => SseNotifies("TransportClosed", "sse_stream_closed")
       /\ (SseEndsFrom("streaming") /\ sse'.last = StreamErr /\ sse.last # StreamErr)
            => SseNotifies("Fatal", "sse_stream_error")
       /\ (SseEndsFrom("awaiting") /\ sse'.last = StreamErr)
            => SseNotifies("Fatal", "sse_stream_error_before_endpoint")
       /\ SseEndsFrom("get")
            => /\ sse'.quit = "Fatal"
               /\ notified'[SseSession] => SseNotifies("Fatal", "sse_initial_response_error")]_vars

\* A worker in Streaming whose stream ended: TransportClosed, notified
\* "sse_stream_closed", and the teardown published that reason.
C31_Witness ==
    /\ sse.pc = "ended"
    /\ sse.last = StreamNone
    /\ sse.quit = "TransportClosed"
    /\ sse.post_url # <<>>
    /\ Event(SseId, "sse_stream_closed") \in BagToSet(events)

\* C32: a connect command whose connect succeeded returns Ok also when the
\* refresh that follows failed, the failing refresh takes nothing out of the
\* registry, and when such a command returns the cache has no entry for its
\* id.
C32_ConnectCommandSurvivesRefresh ==
    [][\A t \in Callers :
         /\ (cmd.run[t].pc = "connect" /\ task[t].pc = "l_call" /\ task'[t].pc = "returned"
                /\ task'[t].ret.kind = "err")
              => connections' = connections
         /\ (cmd.run[t].pc = "connect" /\ cmd'.run[t].pc = "done" /\ task[t].op = "list_tools")
              => /\ cmd'.run[t].result = "Ok"
                 /\ task[t].ret.kind = "err" => cmd.run[t].id \notin DOMAIN tools_cache']_vars

\* The history entries written by the call-tool command of caller t.
HistoryBy(t) == {k \in 1..Len(cmd.history) : cmd.history[k].by = t}

\* C39: a call-tool command that has returned left exactly one history
\* entry, whose status is "success" exactly when the returned result has
\* success = true, and is "error" with an error message otherwise.
C39_OneHistoryEntryWithStatus ==
    \A t \in Callers :
       (cmd.run[t].kind = "call_tool" /\ cmd.run[t].pc = "done")
         => /\ Cardinality(HistoryBy(t)) = 1
            /\ \A k \in HistoryBy(t) :
                  /\ cmd.history[k].status = "success" <=> cmd.run[t].success
                  /\ ~cmd.run[t].success
                        => /\ cmd.history[k].status = "error"
                           /\ cmd.history[k].error_message # <<>>

\* C33: a teardown run started by a session that was registered and has
\* been taken out of the registry since (by the callback of its worker or by
\* its heartbeat) never removes or cancels a session registered later under
\* the same id, and publishes nothing for the id while the later session
\* stays registered.
C33_StaleTeardownSparesLaterSession ==
    [][\A o \in Owners :
         (/\ hb[o[1]] # NoHb
          /\ hbCancel[o[1]]
          /\ td[o].pc = "remove"
          /\ td'[o] # td[o])
            => /\ connections' # connections => connections[sid[o[1]]] = o[1]
               /\ \A s \in Sessions \ {o[1]} : hbCancel'[s] = hbCancel[s]
               /\ events' # events => sid[o[1]] \notin DOMAIN connections']_vars

\* Session s is not the one registered under its id.
LeftRegistry(s) ==
    sid[s] \notin DOMAIN connections \/ connections[sid[s]] # s

\* C34: the heartbeat of a session that is no longer the one registered
\* under its id eventually exits.
C34_HeartbeatEventuallyExits ==
    \A s \in Sessions :
        (hb[s].pc # "none" /\ LeftRegistry(s)) ~> (hb[s].pc = "done")

\* C35: the registry lock always becomes free again, so that a disconnect
\* (which starts with connections.write()) and an is_connected or connect
\* queued behind it get the lock and return, whatever the servers do with
\* the requests under way.
C35_RegistryLockAlwaysFreed == []<>CanWrite

\* C36: a connect whose SSE worker got a 2xx answer to its GET and waits
\* for the endpoint event eventually returns, or at least gets past that
\* wait: the worker does not stay in phase 1 for ever.
C36_AwaitingEndpointConnectReturns ==
    (sse.pc = "awaiting") ~> (task[1].pc = "returned" \/ sse.pc # "awaiting")

\* A task can take a step, or a waiter can be given its lock.
LockProgress ==
    \/ \E t \in LockTasks : ~LockDone(t) /\ ~locks.waits[t]
    \/ \E l \in LockNames :
          locks.queue[l] # <<>> /\ Grantable(l, Head(locks.queue[l])[2])

\* C37: no task asks for the registry lock while it holds the cache lock,
\* and as long as a task has not finished its path some task can go on: no
\* state has the tasks waiting for each other's locks.
C37_LockOrder ==
    /\ \A t \in LockTasks :
          (locks.waits[t] /\ OpOf(t).lock = "connections") => "tools_cache" \notin HeldBy(t)
    /\ (\E t \in LockTasks : ~LockDone(t)) => LockProgress

\* A list_tools holds both locks while a disconnect, which holds nothing
\* yet, waits for the registry lock and a cached-tools read waits for the
\* cache lock.
C37_Witness ==
    \E t, u, v \in LockTasks :
        /\ locks.path[t] = "list_tools" /\ HeldBy(t) = LockNames
        /\ locks.path[u] = "disconnect" /\ locks.waits[u] /\ HeldBy(u) = {}
        /\ locks.path[v] = "get_cached_tools" /\ locks.waits[v]

\* C38: in phase 2 the worker takes the oldest item of the event stream; a
\* message event that is a JSON-RPC message is appended to what the handler
\* was given, once, and any other event leaves that unchanged.  No other step
\* changes what the handler was given, and while the worker is in phase 2 or
\* awaits a POST the stream only grows at its end, so the events that arrive
\* during a POST are taken after it in the order they arrived.
C38_MessagesInArrivalOrder ==
    [][LET takes == sse.pc = "streaming" /\ sse'.seen = sse.seen + 1
       IN /\ takes =>
               LET x == Head(sse.inbound)
               IN /\ sse'.inbound = Tail(sse.inbound)
                  /\ sse'.delivered =
                        IF x.event = "message" /\ x.data \in ValidJsonRpc
                        THEN Append(sse.delivered, x.data)
                        ELSE sse.delivered
          /\ ~takes => sse'.delivered = sse.delivered
          /\ (~takes /\ sse.pc \in {"streaming", "posting"} /\ sse'.pc # "ended") =>
               \/ sse'.inbound = sse.inbound
               \/ \E x \in StreamItems : sse'.inbound = Append(sse.inbound, x)]_vars

C38_Witness ==
    /\ sse.pc = "posting"
    /\ Len(sse.delivered) = 1
    /\ Len(sse.inbound) = 1
    /\ sse.inbound[1].event = "message"
    /\ sse.inbound[1].data \in ValidJsonRpc \ {sse.delivered[1]}


\* C40: whatever the heartbeat_interval entry holds, a heartbeat that has
\* built its ticker runs with an interval of at least one second: it is
\* ticking, not ended by a panic at its start.
C40_IntervalStrictlyPositive ==
    \A s \in Sessions :
        ticker[s].state # "none" => ticker[s].state = "ticking" /\ ticker[s].secs > 0

====
